---- MODULE Spec2Model ----
(***************************************************************************)
(* Research orchestration core of company_research: the real-time run      *)
(* (ResearchPipeline.run) with its four asyncio semaphores, the            *)
(* Firecrawl -> DuckDuckGo search fallback and the DuckDuckGo lock (Spec,   *)
(* SpecLive), and the LLM adapter llm_complete with the wrappers that call  *)
(* it (SpecLLM), and the batch-mode run (ResearchPipeline.run_batch) with    *)
(* the response parsers it calls (SpecBatch), and the pipeline objects of    *)
(* one process with their search provider switch (SpecProc), and the        *)
(* serialised, spaced requests of search_ddg (SpecDdg), and                 *)
(* BatchProcessor.poll_batch with _download_results (SpecPoll), and the     *)
(* ResearchCache store (SpecCache).                                         *)
(***************************************************************************)
EXTENDS Integers, Sequences, FiniteSets, TLC

\* ------------------------------------------------------------------------
\* Bounds of the model
\* ------------------------------------------------------------------------
\* number of entities in the input list of run()
NumEntities == 2
\* sub-tasks gathered per phase of one entity: queries of _search_company,
\* ranked URLs of _scrape_urls, people of _research_people
Fanout == 2
\* largest Config.company_concurrency tried
MaxCompanyPermits == 2
\* Config.search_concurrency tried: more than one, so that search calls of
\* different sub-tasks meet at the free-search lock
SearchPermits == 2
\* largest Config.scrape_concurrency / claude_concurrency tried
MaxPermits == 1

\* concurrent entity tasks that call the LLM adapter
NumCallers == 2

\* pipeline objects created in one process (one per web research request)
NumPipelines == 3

\* concurrent callers of search_ddg
NumDdgCallers == 2
\* last tick of the clock of the search_ddg model (one tick is one second)
MaxTime == 13

\* largest timeout given to poll_batch, in poll intervals
MaxTimeout == 2
\* most lines of a batch output file
MaxLines == 2

\* the cache clock runs from 0 to MaxClock days
MaxClock == 1
\* largest max_age_days a get is called with
MaxAge == 0
\* most cache rows damaged at one time
MaxDamaged == 1

\* max_retries of fetch_url
MaxFetchRetries == 2

\* longest list of search results ranked, largest max_urls, calls per list
MaxHits == 3
MaxUrls == 2
MaxRankCalls == 2

\* the longest list of ranked URLs _scrape_urls is given
MaxPages == 2

\* duckduckgo_client._DDG_MIN_INTERVAL, in seconds
MinInterval == 2
\* max_retries of search_ddg
MaxRetries == 2

\* generate_person_queries always returns two queries
NumPersonQueries == 2

Names == {"A", "B"}
Entities == 1..NumEntities
SubIds == 1..Fanout

VARIABLES
    config,               \* Config: the sizes the four semaphores are created with
    companies,            \* run(companies): the input list (company names)
    rpc,                  \* position of run(): "check", "gather", "returned", "aborted"
    check_i,              \* index of the cache-check loop of run()
    results,              \* run(): results loaded from cache
    to_process,           \* run(): indices of the entities to process
    new_results,          \* what gather() collected, by input index
    ordered,              \* the list run() returns
    epc,                  \* phase of each entity task (_process_company_safe)
    sub,                  \* position of each gathered sub-task of each entity
    qleft,                \* person sub-task: queries of its loop not yet looked at
    company_sem,          \* free permits of self.company_sem
    search_sem,           \* free permits of self.search_sem
    scrape_sem,           \* free permits of self.scrape_sem
    claude_sem,           \* free permits of self.claude_sem
    ddg_lock,             \* duckduckgo_client._ddg_lock is held
    firecrawl_available,  \* self._firecrawl_available
    paid_failed,          \* history: the paid provider has reported a
                          \* payment/quota failure
    after_switch,         \* history: a search call has started after that
    cached_data,          \* run(): what the cache check loop last read (cached)
    llm_keys,             \* Config.anthropic_api_key / openai_api_key are set
    anthropic_failed,     \* llm_client._anthropic_failed
    active_provider,      \* llm_client._active_provider
    call,                 \* the llm_complete call of each entity task
    stage,                \* the LLM step each entity task is at
    out,                  \* what the wrappers returned to each entity task
    lrun,                 \* the run the entity tasks belong to
    prev_timeout,         \* history: the task's previous llm_complete call
                          \* saw the primary provider time out
    no_provider_seen,     \* history: llm_complete has raised "No LLM provider
                          \* available"
    bphase,               \* run_batch: the phase it is in
    bstep,                \* run_batch: "submit", "serial" or "parse" in a phase
    b_cached,             \* run_batch: entities loaded from cache in Phase 0
    content,              \* run_batch: usable page content was scraped for the
                          \* company / for its person
    texts,                \* run_batch: intel_results, summary_results and
                          \* person_results, by entity
    parsed,               \* run_batch: parsed_intel and parsed_summaries
    b_i,                  \* run_batch: last request of the serial fallback loop
    b_ordered,            \* run_batch: the list it returns
    pkey,                 \* process: FIRECRAWL_KEY is set in the environment
    pipes,                \* process: the ResearchPipeline objects created so
                          \* far, each with its _firecrawl_available and the
                          \* position of its search call
    proc_paid_failed,     \* history: a search call of the process has
                          \* observed a payment/quota failure
    dnow,                 \* search_ddg: time.monotonic(), in seconds
    last_request_time,    \* duckduckgo_client._last_request_time
    lock_held,            \* search_ddg: _ddg_lock is held
    dcall,                \* search_ddg: position, attempt and wake-up time of
                          \* each caller, and how its last provider request
                          \* ended
    req_end,              \* history: when the last provider request finished
                          \* (-1: no request yet)
    ptimeout,             \* poll_batch: timeout
    pnow,                 \* poll_batch: time.time() - start
    ppc,                  \* poll_batch: "top" of the loop, "sleeping", "done"
    pstatus,              \* poll_batch: the status last retrieved
    polls,                \* history: statuses retrieved so far
    pexit,                \* poll_batch: how it ended
    cancel_calls,         \* history: calls of client.batches.cancel
    cancel_failed,        \* history: the cancel call raised
    p_lines,              \* the output file _download_results read
    p_results,            \* the map poll_batch returned
    cconn,                \* ResearchCache.conn: "none", "alive", or "dead"
                          \* (a connection object that no longer works)
    db_up,                \* environment: sqlite3.connect and the schema script work
    provisioned,          \* the four tables exist
    rows,                 \* the row of each table under the key in use
    cnow,                 \* datetime.now(), in days
    cmax_age,             \* the max_age_days the gets are called with
    cres,                 \* history: the cache call that just returned
    spc,                  \* scrape_one: "start", "get" (fetch_url about to
                          \* request), "sleep" (its backoff), "extract", "done"
    max_chars,            \* Config.content_max_chars
    fattempt,             \* fetch_url: attempt
    last_error,           \* fetch_url: last_error
    fret,                 \* fetch_url: the (content, error) pair it returned,
                          \* content given by its length, -1 for None
    fhist,                \* history: the reply to each request of fetch_url and
                          \* the sleep that followed it
    page,                 \* the ScrapedPage of scrape_one: length of content, error
    rank_results,         \* rank_and_deduplicate: the list of SearchResult passed
    company_name,         \* rank_and_deduplicate: company_name
    max_urls,             \* rank_and_deduplicate: max_urls
    ranked,               \* what the last call of rank_and_deduplicate returned
    prev_ranked,          \* history: what the call before it returned
    ncalls,               \* history: calls of rank_and_deduplicate so far
    urls,            \* _scrape_urls: the ranked URLs it is given
    fc,              \* firecrawl_content: per URL the length of the inline content, -1 for none
    scrape_cache,    \* the scrape cache: per URL the length of the content held, -1 for none
    cur,             \* the position in urls of the scrape_one being followed, 0 for none
    scrape_results,  \* what gather holds per position of urls
    ret_pages,       \* the list _scrape_urls returned
    slog,            \* history: what the scrape_one being followed has done
    force_refresh,   \* ResearchPipeline.force_refresh of the run followed
    kv,              \* what the cache holds per kind of key: "none", "empty", "value" or "error"
    step,            \* where the run followed stands for its entity
    used,            \* history: the cached values the run followed has used, as <<key, value>>
    run_outcome,     \* "ok", or "error" when _process_company raised
    id_entities,     \* run_batch: the entities to process, each with its name and its person
    id_pc,           \* where the phases of run_batch stand for the correlation ids
    id_requests,     \* per phase the requests of the job, as [id, origin]
    id_results,      \* per phase what the job returned, as [id, origin]
    id_given,        \* per entity and phase the origin of the response it was given, 0 for none
    rp_people,       \* _research_people: the people listed for the company
    rp_tasks,        \* per listed person where its _research_person stands, and its result
    rp_profiles,     \* the list _research_people returned
    rp_pc            \* "gather" until _research_people has returned

runVars == <<rpc, check_i, results, to_process, new_results, ordered>>
taskVars == <<epc, sub, qleft>>
gateVars == <<company_sem, search_sem, scrape_sem, claude_sem, ddg_lock>>
llmVars == <<llm_keys, anthropic_failed, active_provider, call, stage, out,
             lrun, prev_timeout, no_provider_seen>>
batchVars == <<bphase, bstep, b_cached, content, texts, parsed, b_i, b_ordered>>
\* what no step of the real-time run model changes: the configuration, the
\* input list, and the state of the LLM adapter and batch run models
procVars == <<pkey, pipes, proc_paid_failed>>
\* the state of the component models further below
ddgVars == <<dnow, last_request_time, lock_held, dcall, req_end>>
pollVars == <<ptimeout, pnow, ppc, pstatus, polls, pexit, cancel_calls, cancel_failed,
              p_lines, p_results>>
cacheVars == <<cconn, db_up, provisioned, rows, cnow, cmax_age, cres>>
scrapeVars == <<spc, max_chars, fattempt, last_error, fret, fhist, page>>
rankVars == <<rank_results, company_name, max_urls, ranked, prev_ranked, ncalls>>
listVars == <<urls, fc, scrape_cache, cur, scrape_results, ret_pages, slog>>
siteVars == <<force_refresh, kv, step, used, run_outcome>>
idVars == <<id_entities, id_pc, id_requests, id_results, id_given>>
peopleVars == <<rp_people, rp_tasks, rp_profiles, rp_pc>>
sideVars == <<procVars, ddgVars, pollVars, cacheVars, scrapeVars, rankVars, listVars, siteVars, idVars, peopleVars>>
runFixed == <<config, companies, llmVars, batchVars, sideVars>>
hist == <<paid_failed, after_switch, cached_data>>
baseVars == <<config, companies, runVars, taskVars, gateVars,
              firecrawl_available, hist>>
coreVars == <<baseVars, sideVars>>
\* what no step of the LLM adapter model changes
pipelineVars == <<coreVars, batchVars>>
vars == <<coreVars, llmVars, batchVars>>

\* ------------------------------------------------------------------------
\* Helpers
\* ------------------------------------------------------------------------
NoResult == [name |-> "", kind |-> "none", src |-> 0]

\* CompanyResult as far as run() looks at it: the company it carries, whether it
\* is a cached, a fresh or an error-tagged result, and the input index it was
\* built for
Result(i, kind) == [name |-> companies[i], kind |-> kind, src |-> i]

\* CompanyResult.error_result(company, str(e))
error_result(i) == Result(i, "error")

\* sub-task positions in which nothing is in flight and no gate is held
Settled == {"idle", "done"}
AllSettled(i) == \A k \in SubIds : sub[i][k] \in Settled

\* phases in which the entity is inside _process_company
Inside == {"search", "scrape", "extract", "summary", "team", "people"}

SetSub(i, k, pc) == [sub EXCEPT ![i][k] = pc]

\* run(): result_map built from the cached results, then from new_results in
\* gather order; a later result of the same company name replaces an earlier one
RECURSIVE result_map_of(_, _)
result_map_of(rs, m) ==
    IF rs = <<>> THEN m
    ELSE result_map_of(Tail(rs), [m EXCEPT ![Head(rs).name] = Head(rs)])

RECURSIVE gathered(_)
gathered(idx) ==
    IF idx = <<>> THEN <<>>
    ELSE <<new_results[Head(idx)]>> \o gathered(Tail(idx))

\* the same, but a result_map entry is used up by the first entity that
\* takes it
RECURSIVE ordered_once(_, _)
ordered_once(cs, m) ==
    IF cs = <<>> THEN <<>>
    ELSE (IF m[Head(cs)].kind # "none" THEN <<m[Head(cs)]>> ELSE <<>>)
         \o ordered_once(Tail(cs), [m EXCEPT ![Head(cs)] = NoResult])

RECURSIVE ordered_of(_, _)
ordered_of(cs, m) ==
    IF cs = <<>> THEN <<>>
    ELSE (IF m[Head(cs)].kind # "none" THEN <<m[Head(cs)]>> ELSE <<>>)
         \o ordered_of(Tail(cs), m)

\* ------------------------------------------------------------------------
\* Initial state: a pipeline object right after __init__, run() just called
\* ------------------------------------------------------------------------
\* the input lists of run(), up to renaming of the companies: names may repeat
InputLists == {c \in [Entities -> Names] : c[1] = "A"}

\* Config as far as the pipeline object reads it: whether a Firecrawl key is
\* set, and the (positive) sizes of the four semaphores
Configs ==
    [firecrawl_key : BOOLEAN,
     company_concurrency : 1..MaxCompanyPermits,
     search_concurrency : {SearchPermits},
     scrape_concurrency : 1..MaxPermits,
     claude_concurrency : 1..MaxPermits]

\* the keys load_config() lets through: it exits unless at least one of
\* ANTHROPIC_API_KEY and OPENAI_API_KEY is set
LlmKeys ==
    {k \in [anthropic : BOOLEAN, openai : BOOLEAN] : k.anthropic \/ k.openai}

\* llm_complete is not running; the module globals of llm_client as imported
NoCall == [pc |-> "idle", err |-> "none", exc |-> "none"]

LlmInit(keys) ==
    /\ llm_keys \in keys
    /\ anthropic_failed = FALSE
    /\ active_provider = "none"
    /\ call = [c \in 1..NumCallers |-> NoCall]
    /\ stage = [c \in 1..NumCallers |-> "extract"]
    /\ out = [c \in 1..NumCallers |-> [extraction |-> "none", summary |-> "none"]]
    /\ lrun = "running"
    /\ prev_timeout = [c \in 1..NumCallers |-> FALSE]
    /\ no_provider_seen = FALSE

\* run_batch() just called
Phases == {"intel", "summary", "person"}
BatchInit ==
    /\ bphase = "check"
    /\ bstep = "submit"
    /\ b_cached = {}
    /\ content = [i \in Entities |-> [company |-> FALSE, person |-> FALSE]]
    /\ texts = [ph \in Phases |-> [i \in Entities |-> "absent"]]
    /\ parsed = [ph \in {"intel", "summary"} |-> [i \in Entities |-> "none"]]
    /\ b_i = 0
    /\ b_ordered = <<>>

\* a process in which no pipeline object has been created yet
Pipelines == 1..NumPipelines
NoPipeline == [made |-> FALSE, firecrawl_available |-> FALSE, pc |-> "idle"]
ProcInit(keys) ==
    /\ pkey \in keys
    /\ pipes = [p \in Pipelines |-> NoPipeline]
    /\ proc_paid_failed = FALSE

\* duckduckgo_client as imported, no search_ddg call yet; the monotonic
\* clock starts at any value from 0 on
DdgCallers == 1..NumDdgCallers
DdgInit(starts) ==
    /\ dnow \in starts
    /\ last_request_time = 0
    /\ lock_held = FALSE
    /\ dcall = [c \in DdgCallers |-> [pc |-> "idle", attempt |-> 0, wake |-> 0,
                                      last |-> "none"]]
    /\ req_end = -1

\* poll_batch just called with one of the timeouts; the correlation ids of
\* the job
CustomIds == {"intel-A", "intel-B"}
PollInit(timeouts) ==
    /\ ptimeout \in timeouts
    /\ pnow = 0
    /\ ppc = "top"
    /\ pstatus = "none"
    /\ polls = 0
    /\ pexit = "none"
    /\ cancel_calls = 0
    /\ cancel_failed = FALSE
    /\ p_lines = <<>>
    /\ p_results = [id \in CustomIds |-> "absent"]

\* the four tables of the cache, and a table without a row under the key
Namespaces == {"search", "scrape", "company", "person"}
NoRow == [payload |-> <<"absent", "">>, created_at |-> <<"absent", 0>>]
NoCacheCall ==
    [op |-> "none", ns |-> "none", arg |-> "", ret |-> "", failed |-> FALSE,
     healed |-> FALSE]

\* ResearchCache.__init__: _init_db connects and provisions, or leaves conn None
CacheInit(ups, ages) ==
    /\ db_up \in ups
    /\ cconn = IF db_up THEN "alive" ELSE "none"
    /\ provisioned = db_up
    /\ rows = [ns \in Namespaces |-> NoRow]
    /\ cnow = 0
    /\ cmax_age \in ages
    /\ cres = NoCacheCall

\* scrape_one called for one URL
ScrapeInit(chars) ==
    /\ spc = "start"
    /\ max_chars \in chars
    /\ fattempt = 0
    /\ last_error = "None"
    /\ fret = [html |-> -1, error |-> "None"]
    /\ fhist = <<>>
    /\ page = [content |-> 0, error |-> "None"]

\* the arguments of rank_and_deduplicate, before its first call
RankInit(inputs, names, limits) ==
    /\ rank_results \in inputs
    /\ company_name \in names
    /\ max_urls \in limits
    /\ ranked = <<>>
    /\ prev_ranked = <<>>
    /\ ncalls = 0

\* the URLs of the pages, and the ranked lists _scrape_urls is given (the
\* ranker returns no URL twice)
PageUrls == {"a", "b"}
UrlLists == {<<"a">>, <<"b", "a">>}

\* no result of gather yet
NoPage == [kind |-> "none", url |-> "", content |-> 0, error |-> "None"]

\* a scrape_one that has done nothing yet
NoLog == [source |-> "none", inline |-> FALSE, cached |-> FALSE, permit |-> FALSE,
          wrote |-> -1, tiers |-> <<>>, reader |-> -1, raised |-> FALSE]

ListInit(lists, inline, held) ==
    /\ urls \in lists
    /\ fc \in [PageUrls -> inline]
    /\ scrape_cache \in [PageUrls -> held]
    /\ cur = 0
    /\ scrape_results = [i \in 1..Len(urls) |-> NoPage]
    /\ ret_pages = <<>>
    /\ slog = NoLog

\* the kinds of keys the pipeline reads and writes: a company profile, a
\* company query, a page, the team-page query, a person profile, a person query
SiteKeys == {"company", "search", "scrape", "team", "person", "person_search"}

SitesInit(flags, held) ==
    /\ force_refresh \in flags
    /\ kv \in held
    /\ step = "company_lookup"
    /\ used = {}
    /\ run_outcome = "ok"

\* texts are sequences of characters; the company and person names of the
\* inputs
CompanyNames == {<<"A">>, <<"B">>, <<"A", "-", "B">>}
PersonNames == {<<"C">>, <<"B", "-", "C">>}
IdPhases == <<"intel", "summary", "person">>
IdBatches == [Entities -> [name : CompanyNames, person : PersonNames]]

IdsInit(batches) ==
    /\ id_entities \in batches
    /\ id_pc = <<1, "build">>
    /\ id_requests = [ph \in 1..3 |-> {}]
    /\ id_results = [ph \in 1..3 |-> {}]
    /\ id_given = [i \in Entities |-> [ph \in 1..3 |-> 0]]

\* the longest list of people of a company
MaxPeople == 2

\* the names of the people; a list may name a person twice
PeopleNames == {"P", "Q"}
PeopleLists == UNION {[1..n -> PeopleNames] : n \in 0..MaxPeople}

\* a _research_person that has not started
NoTask == [at |-> "start", kind |-> "none", name |-> "", company |-> ""]

PeopleInit(lists) ==
    /\ rp_people \in lists
    /\ rp_tasks = [k \in 1..Len(rp_people) |-> NoTask]
    /\ rp_profiles = <<>>
    /\ rp_pc = "gather"

\* the component models at rest
SideInit ==
    /\ ProcInit({TRUE})
    /\ DdgInit({0})
    /\ PollInit({0})
    /\ CacheInit({TRUE}, {MaxAge})
    /\ ScrapeInit({150})
    /\ RankInit({<<>>}, {"Acme"}, {MaxUrls})
    /\ ListInit({<<>>}, {-1}, {-1})
    /\ SitesInit({FALSE}, {[k \in SiteKeys |-> "none"]})
    /\ IdsInit({[i \in Entities |-> [name |-> <<"A">>, person |-> <<"C">>]]})
    /\ PeopleInit({<<>>})

\* get_company returned None (or force_refresh is set)
NoFinding == [kind |-> "miss", fields |-> {}]

PipelineInit(cfgs, lists) ==
    /\ config \in cfgs
    /\ companies \in lists
    /\ rpc = "check"
    /\ check_i = 1
    /\ results = <<>>
    /\ to_process = <<>>
    /\ new_results = [i \in Entities |-> NoResult]
    /\ ordered = <<>>
    /\ epc = [i \in Entities |-> "none"]
    /\ sub = [i \in Entities |-> [k \in SubIds |-> "idle"]]
    /\ qleft = [i \in Entities |-> [k \in SubIds |-> 0]]
    /\ company_sem = config.company_concurrency
    /\ search_sem = config.search_concurrency
    /\ scrape_sem = config.scrape_concurrency
    /\ claude_sem = config.claude_concurrency
    /\ ddg_lock = FALSE
    /\ firecrawl_available = config.firecrawl_key
    /\ paid_failed = FALSE
    /\ after_switch = FALSE
    /\ cached_data = NoFinding

Init ==
    /\ PipelineInit(Configs, InputLists)
    /\ LlmInit({[anthropic |-> TRUE, openai |-> TRUE]})
    /\ BatchInit
    /\ SideInit

\* ------------------------------------------------------------------------
\* run(): cache check loop
\* ------------------------------------------------------------------------
\* the fields of CompanyIntelligence that has_data reads, and fields of it
\* that has_data does not read
CheckedFields ==
    {"company_type", "aum", "lending_types", "deal_types", "fund_raisings",
     "major_announcements", "recent_deals"}
UncheckedFields == {"headquarters", "industry_focus", "check_sizes"}

\* what the cache check of one entity finds: no fresh entry, an entry on which
\* model_validate (or the CRM refresh) raises, or a profile, given by the
\* intelligence fields that hold data
CacheFindings ==
    {NoFinding, [kind |-> "invalid", fields |-> {}]}
    \cup {[kind |-> "profile", fields |-> F] :
              F \in SUBSET {"aum", "recent_deals", "headquarters"}}

\* has_data in the cache check loop
has_data(found) == found.fields \cap CheckedFields # {}

\* one turn of the loop: a profile that validates and has data is appended to
\* results with from_cache set; everything else goes to to_process
RunCheckCache(found) ==
    /\ rpc = "check"
    /\ check_i <= Len(companies)
    /\ cached_data' = found
    /\ IF found.kind = "profile" /\ has_data(found)
       THEN /\ results' = Append(results, Result(check_i, "cached"))
            /\ epc' = [epc EXCEPT ![check_i] = "cached"]
            /\ UNCHANGED to_process
       ELSE /\ to_process' = Append(to_process, check_i)
            /\ UNCHANGED <<results, epc>>
    /\ check_i' = check_i + 1
    /\ UNCHANGED <<runFixed, paid_failed, after_switch, rpc, new_results,
                   ordered, sub, qleft, gateVars, firecrawl_available>>

\* run(): after the loop, return at once when everything was cached, else
\* create one _process_company_safe task per entity and gather them
RunStartTasks ==
    /\ rpc = "check"
    /\ check_i > Len(companies)
    /\ IF to_process = <<>>
       THEN /\ rpc' = "returned"
            /\ ordered' = results
            /\ UNCHANGED epc
       ELSE /\ rpc' = "gather"
            /\ epc' = [i \in Entities |->
                         IF \E j \in 1..Len(to_process) : to_process[j] = i
                         THEN "queued" ELSE epc[i]]
            /\ UNCHANGED ordered
    /\ cached_data' = NoFinding
    /\ UNCHANGED <<runFixed, paid_failed, after_switch, check_i, results,
                   to_process, new_results, sub, qleft, gateVars,
                   firecrawl_available>>

\* ------------------------------------------------------------------------
\* Entity tasks: _process_company_safe / _process_company
\* ------------------------------------------------------------------------
\* the sub-tasks a phase starts: those in S go to pc, the rest are served
\* without a gate (search cache, inline content, scrape cache, person cache)
StartSubs(S, pc) == [k \in SubIds |-> IF k \in S THEN pc ELSE "done"]

\* async with self.company_sem: the entity enters _process_company and
\* _search_company gathers one run_query per query; S are the queries that
\* are not served from the search cache
AcquireCompany(i, S) ==
    /\ rpc = "gather"
    /\ epc[i] = "queued"
    /\ company_sem > 0
    /\ company_sem' = company_sem - 1
    /\ epc' = [epc EXCEPT ![i] = "search"]
    /\ sub' = [sub EXCEPT ![i] = StartSubs(S, "search_wait")]
    /\ UNCHANGED <<runFixed, hist, runVars, qleft, search_sem, scrape_sem, claude_sem,
                   ddg_lock, firecrawl_available>>

\* the same, but the permit of company_sem is not given back
LeaveCompanyKeepingPermit(i, r) ==
    /\ UNCHANGED company_sem
    /\ new_results' = [new_results EXCEPT ![i] = r]
    /\ epc' = [epc EXCEPT ![i] = IF r.kind = "error" THEN "failed" ELSE "done"]

\* the entity leaves _process_company_safe with result r: the with-block
\* releases company_sem and gather() records the task's return value
LeaveCompany(i, r) ==
    /\ company_sem' = company_sem + 1
    /\ new_results' = [new_results EXCEPT ![i] = r]
    /\ epc' = [epc EXCEPT ![i] = IF r.kind = "error" THEN "failed" ELSE "done"]

\* the same without the except clause: the exception leaves the task, gather()
\* re-raises it and run() ends without a list
ProcessCompanyEscapes(i) ==
    /\ company_sem' = company_sem + 1
    /\ epc' = [epc EXCEPT ![i] = "failed"]
    /\ rpc' = "aborted"
    /\ UNCHANGED <<runFixed, hist, check_i, results, to_process, ordered,
                   new_results>>

\* except Exception in _process_company_safe: an exception raised by the
\* entity's own pipeline becomes an error-tagged result of that entity
ProcessCompanyFailed(i) ==
    /\ LeaveCompany(i, error_result(i))
    /\ UNCHANGED <<runFixed, hist, rpc, check_i, results, to_process, ordered>>

\* _process_company raises between two awaits (all gathered sub-tasks have
\* returned: gather(return_exceptions=True) never raises for them)
EntityRaise(i) ==
    /\ rpc = "gather"
    /\ epc[i] \in Inside
    /\ AllSettled(i)
    /\ ProcessCompanyFailed(i)
    /\ UNCHANGED <<sub, qleft, search_sem, scrape_sem, claude_sem, ddg_lock,
                   firecrawl_available>>

\* ---- search calls: async with self.search_sem: await self._do_search() ----

\* what a person sub-task does once i of its queries are still to look at:
\* run the next uncached query (leaving r), or go on to scrape, extract, finish
PersonAfterQueries == {"scrape_wait", "llm_wait", "done"}

\* where a sub-task goes when its search call is over, by the entity's phase
SearchExit(i, k) ==
    IF epc[i] = "people"
    THEN (IF qleft[i][k] > 0 THEN {"search_wait"} ELSE {}) \cup PersonAfterQueries
    ELSE {"done"}

\* the same, but a person's extraction is awaited inside the with-block of
\* self.search_sem
ReleaseSearchAfterLlm(i, k, nxt) ==
    /\ search_sem' = IF nxt = "llm_wait" THEN search_sem ELSE search_sem + 1
    /\ sub' = SetSub(i, k, nxt)
    /\ IF nxt = "search_wait"
       THEN \E r \in 0..(qleft[i][k] - 1) : qleft' = [qleft EXCEPT ![i][k] = r]
       ELSE qleft' = [qleft EXCEPT ![i][k] = 0]

\* leaving the with-block of self.search_sem towards position nxt
ReleaseSearch(i, k, nxt) ==
    /\ search_sem' = search_sem + 1
    /\ sub' = SetSub(i, k, nxt)
    /\ IF nxt = "search_wait"
       THEN \E r \in 0..(qleft[i][k] - 1) : qleft' = [qleft EXCEPT ![i][k] = r]
       ELSE qleft' = [qleft EXCEPT ![i][k] = 0]

\* the same without waiting for a permit
SearchAcquireUnbounded(i, k) ==
    /\ sub[i][k] = "search_wait"
    /\ search_sem' = search_sem - 1
    /\ sub' = SetSub(i, k, IF firecrawl_available THEN "fc" ELSE "lock_wait")
    /\ after_switch' = (after_switch \/ paid_failed)
    /\ UNCHANGED <<runFixed, paid_failed, cached_data, runVars, epc, qleft, company_sem,
                   scrape_sem, claude_sem, ddg_lock, firecrawl_available>>

\* async with self.search_sem, then the first statement of _do_search:
\* the paid provider is called only while self._firecrawl_available
SearchAcquire(i, k) ==
    /\ sub[i][k] = "search_wait"
    /\ search_sem > 0
    /\ search_sem' = search_sem - 1
    /\ sub' = SetSub(i, k, IF firecrawl_available THEN "fc" ELSE "lock_wait")
    /\ after_switch' = (after_switch \/ paid_failed)
    /\ UNCHANGED <<runFixed, paid_failed, cached_data, runVars, epc, qleft, company_sem, scrape_sem, claude_sem,
                   ddg_lock, firecrawl_available>>

\* search_firecrawl returns (it never raises): without error the response is
\* returned; an error whose text holds "402" or "payment" clears the flag;
\* any error falls to search_ddg.  The errors: a payment failure ("http_402"
\* or a warning about payment), another failure whose text holds neither, and
\* another failure whose text happens to hold one of them ("lookalike": the
\* message of an exception, the warning of an unsuccessful response)
FirecrawlErrors == {"none", "payment", "other", "lookalike"}

\* the test _do_search makes on the error text
is_payment_error(error) == error \in {"payment", "lookalike"}

\* the same without the permanent switch: every error falls back for this
\* call only
FirecrawlReturnPerCall(i, k, error) ==
    /\ sub[i][k] = "fc"
    /\ IF error = "none"
       THEN /\ \E nxt \in SearchExit(i, k) : ReleaseSearch(i, k, nxt)
       ELSE /\ sub' = SetSub(i, k, "lock_wait")
            /\ UNCHANGED <<search_sem, qleft>>
    /\ paid_failed' = (paid_failed \/ error = "payment")
    /\ UNCHANGED <<runFixed, after_switch, cached_data, runVars, epc, company_sem,
                   scrape_sem, claude_sem, ddg_lock, firecrawl_available>>

FirecrawlReturn(i, k, error) ==
    /\ sub[i][k] = "fc"
    /\ IF error = "none"
       THEN /\ \E nxt \in SearchExit(i, k) : ReleaseSearch(i, k, nxt)
            /\ UNCHANGED firecrawl_available
       ELSE /\ firecrawl_available' = (IF is_payment_error(error) THEN FALSE
                                       ELSE firecrawl_available)
            /\ sub' = SetSub(i, k, "lock_wait")
            /\ UNCHANGED <<search_sem, qleft>>
    /\ paid_failed' = (paid_failed \/ error = "payment")
    /\ UNCHANGED <<runFixed, after_switch, cached_data, runVars, epc, company_sem,
                   scrape_sem, claude_sem, ddg_lock>>

\* search_ddg: async with lock (inside the search gate)
DdgAcquire(i, k) ==
    /\ sub[i][k] = "lock_wait"
    /\ ~ddg_lock
    /\ ddg_lock' = TRUE
    /\ sub' = SetSub(i, k, "ddg")
    /\ UNCHANGED <<runFixed, hist, runVars, epc, qleft, company_sem, search_sem, scrape_sem,
                   claude_sem, firecrawl_available>>

\* search_ddg is over: the lock and then the search gate are released. The
\* caller's handling may raise; only in _find_team_pages does that reach the
\* entity (run_query is gathered, the person loop catches it)
DdgReturn(i, k, raises) ==
    /\ sub[i][k] = "ddg"
    /\ ddg_lock' = FALSE
    /\ IF raises /\ epc[i] = "team"
       THEN /\ search_sem' = search_sem + 1
            /\ sub' = SetSub(i, k, "done")
            /\ ProcessCompanyFailed(i)
            /\ UNCHANGED qleft
       ELSE /\ \E nxt \in SearchExit(i, k) : ReleaseSearch(i, k, nxt)
            /\ UNCHANGED <<runFixed, hist, runVars, epc, company_sem>>
    /\ UNCHANGED <<scrape_sem, claude_sem, firecrawl_available>>

\* ---- page fetches: async with self.scrape_sem: await extract_page() ----

\* where a sub-task goes when its scrape is over: a gathered scrape_one is
\* finished; a person goes on to the extraction or ends with a default profile
ScrapeExit(i) == IF epc[i] = "people" THEN {"llm_wait", "done"} ELSE {"done"}

ScrapeAcquire(i, k) ==
    /\ sub[i][k] = "scrape_wait"
    /\ scrape_sem > 0
    /\ scrape_sem' = scrape_sem - 1
    /\ sub' = SetSub(i, k, "scraping")
    /\ UNCHANGED <<runFixed, hist, runVars, epc, qleft, company_sem, search_sem, claude_sem,
                   ddg_lock, firecrawl_available>>

\* extract_page returned or raised: either way the with-block releases the
\* gate and _scrape_urls' gather turns an exception into an error page
ScrapeReturn(i, k) ==
    /\ sub[i][k] = "scraping"
    /\ scrape_sem' = scrape_sem + 1
    /\ \E nxt \in ScrapeExit(i) : sub' = SetSub(i, k, nxt)
    /\ UNCHANGED <<runFixed, hist, runVars, epc, qleft, company_sem, search_sem, claude_sem,
                   ddg_lock, firecrawl_available>>

\* ---- LLM calls: async with self.claude_sem: await <adapter call> ----

\* _extract_intelligence takes the gate before extract_company_intelligence
\* finds that no page has content and returns without calling the adapter
MayReturnWithoutCall(i) == epc[i] = "extract"

LlmAcquire(i, k, calls) ==
    /\ sub[i][k] = "llm_wait"
    /\ claude_sem > 0
    /\ calls \/ MayReturnWithoutCall(i)
    /\ IF calls
       THEN /\ claude_sem' = claude_sem - 1
            /\ sub' = SetSub(i, k, "llm")
       ELSE /\ sub' = SetSub(i, k, "done")
            /\ UNCHANGED claude_sem
    /\ UNCHANGED <<runFixed, hist, runVars, epc, qleft, company_sem, search_sem, scrape_sem,
                   ddg_lock, firecrawl_available>>

\* llm_complete returned or raised: extract_company_intelligence,
\* generate_company_summary and extract_person_profile catch every exception
LlmReturn(i, k) ==
    /\ sub[i][k] = "llm"
    /\ claude_sem' = claude_sem + 1
    /\ sub' = SetSub(i, k, "done")
    /\ UNCHANGED <<runFixed, hist, runVars, epc, qleft, company_sem, search_sem, scrape_sem,
                   ddg_lock, firecrawl_available>>

\* ---- the steps of _process_company ----

\* Step 2: _scrape_urls gathers one scrape_one per ranked URL; S are the URLs
\* with neither inline content nor a scrape-cache entry
StartScrape(i, S) ==
    /\ epc[i] = "search"
    /\ AllSettled(i)
    /\ epc' = [epc EXCEPT ![i] = "scrape"]
    /\ sub' = [sub EXCEPT ![i] = StartSubs(S, "scrape_wait")]
    /\ UNCHANGED <<runFixed, hist, runVars, qleft, gateVars, firecrawl_available>>

\* Step 3: _extract_intelligence
StartExtract(i) ==
    /\ epc[i] = "scrape"
    /\ AllSettled(i)
    /\ epc' = [epc EXCEPT ![i] = "extract"]
    /\ sub' = [sub EXCEPT ![i] = StartSubs({1}, "llm_wait")]
    /\ UNCHANGED <<runFixed, hist, runVars, qleft, gateVars, firecrawl_available>>

\* Steps 4 and 5: compute_fit_score, then _generate_summary
StartSummary(i) ==
    /\ epc[i] = "extract"
    /\ AllSettled(i)
    /\ epc' = [epc EXCEPT ![i] = "summary"]
    /\ sub' = [sub EXCEPT ![i] = StartSubs({1}, "llm_wait")]
    /\ UNCHANGED <<runFixed, hist, runVars, qleft, gateVars, firecrawl_available>>

\* Step 6: _find_team_pages; with a cached team query it makes no search call
StartTeam(i, cached) ==
    /\ epc[i] = "summary"
    /\ AllSettled(i)
    /\ epc' = [epc EXCEPT ![i] = "team"]
    /\ sub' = [sub EXCEPT ![i] =
                 StartSubs(IF cached THEN {} ELSE {1}, "search_wait")]
    /\ UNCHANGED <<runFixed, hist, runVars, qleft, gateVars, firecrawl_available>>

\* Step 7: _research_people gathers one _research_person per person; each
\* starts at f[k]: "done" for a cached profile, its first uncached query
\* (g[k] queries left after it), or past the queries when all are cached
StartPeople(i, f, g) ==
    /\ epc[i] = "team"
    /\ AllSettled(i)
    /\ epc' = [epc EXCEPT ![i] = "people"]
    /\ sub' = [sub EXCEPT ![i] = f]
    /\ qleft' = [qleft EXCEPT ![i] =
                   [k \in SubIds |-> IF f[k] = "search_wait" THEN g[k] ELSE 0]]
    /\ UNCHANGED <<runFixed, hist, runVars, gateVars, firecrawl_available>>

\* Step 8 and return CompanyResult(...): the entity's task ends with its result
FinishCompany(i) ==
    /\ epc[i] = "people"
    /\ AllSettled(i)
    /\ LeaveCompany(i, Result(i, "ok"))
    /\ UNCHANGED <<runFixed, hist, rpc, check_i, results, to_process, ordered,
                   sub, qleft, search_sem, scrape_sem, claude_sem, ddg_lock,
                   firecrawl_available>>

\* ---- run(): gather returned; merge by company name, return in input order ----
RunMerge ==
    /\ rpc = "gather"
    /\ \A j \in 1..Len(to_process) : epc[to_process[j]] \in {"done", "failed"}
    /\ ordered' = ordered_of(companies,
                     result_map_of(results \o gathered(to_process),
                                   [n \in Names |-> NoResult]))
    /\ rpc' = "returned"
    /\ UNCHANGED <<runFixed, hist, check_i, results, to_process, new_results,
                   taskVars, gateVars, firecrawl_available>>

Next ==
    \/ \E found \in CacheFindings : RunCheckCache(found)
    \/ RunStartTasks
    \/ RunMerge
    \/ \E i \in Entities :
         \/ \E S \in SUBSET SubIds : AcquireCompany(i, S)
         \/ EntityRaise(i)
         \/ \E S \in SUBSET SubIds : StartScrape(i, S)
         \/ StartExtract(i)
         \/ StartSummary(i)
         \/ \E cached \in BOOLEAN : StartTeam(i, cached)
         \/ \E f \in [SubIds -> {"search_wait"} \cup PersonAfterQueries],
               g \in [SubIds -> 0..(NumPersonQueries - 1)] : StartPeople(i, f, g)
         \/ FinishCompany(i)
         \/ \E k \in SubIds :
              \/ SearchAcquire(i, k)
              \/ \E error \in FirecrawlErrors : FirecrawlReturn(i, k, error)
              \/ DdgAcquire(i, k)
              \/ \E raises \in BOOLEAN : DdgReturn(i, k, raises)
              \/ ScrapeAcquire(i, k)
              \/ ScrapeReturn(i, k)
              \/ \E calls \in BOOLEAN : LlmAcquire(i, k, calls)
              \/ LlmReturn(i, k)

Spec == Init /\ [][Next]_vars

\* the code's scheduling: the event loop always runs a ready task, and every
\* external call is assumed to return or fail eventually
SpecLive == Spec /\ WF_vars(Next)

\* ------------------------------------------------------------------------
\* The LLM adapter (analysis/llm_client.py) under the entity tasks that call it
\* through extract_company_intelligence and generate_company_summary
\* ------------------------------------------------------------------------
Callers == 1..NumCallers

\* what the primary provider can answer to one request: nothing within
\* _LLM_TIMEOUT, a completion (200), or an APIStatusError with a status code
\* whose message does or does not mention credit, balance or billing
Statuses == {200, 400, 401, 402, 500}
AnthropicReplies ==
    {[timed_out |-> TRUE, status |-> 200, billing_words |-> FALSE]}
    \cup [timed_out : {FALSE}, status : Statuses, billing_words : BOOLEAN]

\* how llm_complete sees the reply: wait_for raises TimeoutError,
\* _call_anthropic returns the text, raises _AnthropicBillingError or re-raises
BillingStatuses == {400, 401, 402}
outcome_of(reply) ==
    IF reply.timed_out THEN "timeout"
    ELSE IF reply.status = 200 THEN "none"
    ELSE IF reply.status \in BillingStatuses /\ reply.billing_words
         THEN "billing"
    ELSE "other"

\* the tail of llm_complete (lines 60-76): call the secondary provider if its
\* key is set, raise "No LLM provider available" otherwise
Fallback(c, cl) ==
    IF llm_keys.openai
    THEN [cl EXCEPT !.pc = "secondary"]
    ELSE [cl EXCEPT !.pc = "raised", !.exc = "no_provider"]

\* the same, but the primary provider is tried whatever the flag says
LlmStartRetrying(c) ==
    /\ lrun = "running"
    /\ stage[c] \in {"extract", "summary"}
    /\ call[c].pc = "idle"
    /\ LET cl == call[c]
           nx == IF llm_keys.anthropic
                 THEN [cl EXCEPT !.pc = "primary"]
                 ELSE Fallback(c, cl)
       IN /\ call' = [call EXCEPT ![c] = nx]
          /\ active_provider' = IF nx.pc = "secondary" THEN "openai"
                                ELSE active_provider
          /\ no_provider_seen' = (no_provider_seen \/ nx.exc = "no_provider")
    /\ UNCHANGED <<pipelineVars, llm_keys, anthropic_failed, stage, out, lrun,
                   prev_timeout>>

\* llm_complete is entered (line 35)
LlmStart(c) ==
    /\ lrun = "running"
    /\ stage[c] \in {"extract", "summary"}
    /\ call[c].pc = "idle"
    /\ LET cl == call[c]
           nx == IF ~anthropic_failed /\ llm_keys.anthropic
                 THEN [cl EXCEPT !.pc = "primary"]
                 ELSE Fallback(c, cl)
       IN /\ call' = [call EXCEPT ![c] = nx]
          /\ active_provider' = IF nx.pc = "secondary" THEN "openai"
                                ELSE active_provider
          /\ no_provider_seen' = (no_provider_seen \/ nx.exc = "no_provider")
    /\ UNCHANGED <<pipelineVars, llm_keys, anthropic_failed, stage, out, lrun,
                   prev_timeout>>

\* what llm_complete does with an exception of the primary call when no
\* secondary key is set
ExcWithoutSecondary(o) ==
    CASE o = "timeout" -> "timeout"
      [] o = "billing" -> "no_provider"
      [] OTHER -> "error"

\* the same, but every failure of the primary provider sets the flag
AnthropicReturnSticky(c, reply) ==
    /\ call[c].pc = "primary"
    /\ LET o == outcome_of(reply)
           cl == [call[c] EXCEPT !.err = o]
           nx == IF o = "none" THEN [cl EXCEPT !.pc = "returned"]
                 ELSE IF llm_keys.openai THEN [cl EXCEPT !.pc = "secondary"]
                 ELSE [cl EXCEPT !.pc = "raised", !.exc = ExcWithoutSecondary(o)]
       IN /\ call' = [call EXCEPT ![c] = nx]
          /\ anthropic_failed' = (anthropic_failed \/ o # "none")
          /\ active_provider' = IF o = "none" THEN "anthropic"
                                ELSE IF nx.pc = "secondary" THEN "openai"
                                ELSE active_provider
          /\ no_provider_seen' = (no_provider_seen \/ nx.exc = "no_provider")
    /\ UNCHANGED <<pipelineVars, llm_keys, stage, out, lrun, prev_timeout>>

\* the primary call ends (lines 36-58) and, unless it returned the text,
\* llm_complete goes on to its tail
AnthropicReturn(c, reply) ==
    /\ call[c].pc = "primary"
    /\ LET o == outcome_of(reply)
           cl == [call[c] EXCEPT !.err = o]
           nx == IF o = "none" THEN [cl EXCEPT !.pc = "returned"]
                 ELSE IF llm_keys.openai THEN [cl EXCEPT !.pc = "secondary"]
                 ELSE [cl EXCEPT !.pc = "raised", !.exc = ExcWithoutSecondary(o)]
       IN /\ call' = [call EXCEPT ![c] = nx]
          /\ anthropic_failed' = (anthropic_failed \/ o = "billing")
          /\ active_provider' = IF o = "none" THEN "anthropic"
                                ELSE IF nx.pc = "secondary" THEN "openai"
                                ELSE active_provider
          /\ no_provider_seen' = (no_provider_seen \/ nx.exc = "no_provider")
    /\ UNCHANGED <<pipelineVars, llm_keys, stage, out, lrun, prev_timeout>>

\* the secondary call ends: the text, a TimeoutError of wait_for, or any
\* exception of the client, which llm_complete lets through
OpenaiOutcomes == {"none", "timeout", "error"}
OpenaiReturn(c, o) ==
    /\ call[c].pc = "secondary"
    /\ call' = [call EXCEPT ![c] = IF o = "none"
                                   THEN [@ EXCEPT !.pc = "returned"]
                                   ELSE [@ EXCEPT !.pc = "raised", !.exc = o]]
    /\ UNCHANGED <<pipelineVars, llm_keys, anthropic_failed, active_provider,
                   stage, out, lrun, prev_timeout, no_provider_seen>>

\* the wrapper's value for the step the task is at
SetOut(c, v) ==
    IF stage[c] = "extract" THEN [out EXCEPT ![c].extraction = v]
    ELSE [out EXCEPT ![c].summary = v]
NextStage(c) == IF stage[c] = "extract" THEN "summary" ELSE "done"

\* extract_company_intelligence / generate_company_summary return: the parsed
\* record, or the empty record when the response does not parse or when
\* llm_complete raised (except Exception)
WrapperReturn(c, parses) ==
    /\ call[c].pc \in {"returned", "raised"}
    /\ out' = SetOut(c, IF call[c].pc = "returned" /\ parses THEN "parsed"
                        ELSE "empty")
    /\ stage' = [stage EXCEPT ![c] = NextStage(c)]
    /\ call' = [call EXCEPT ![c] = NoCall]
    /\ prev_timeout' = [prev_timeout EXCEPT ![c] = call[c].err = "timeout"]
    /\ UNCHANGED <<pipelineVars, llm_keys, anthropic_failed, active_provider,
                   lrun, no_provider_seen>>

\* extract_company_intelligence finds no usable page content and returns the
\* empty record without calling llm_complete
ExtractSkipped(c) ==
    /\ lrun = "running"
    /\ stage[c] = "extract"
    /\ call[c].pc = "idle"
    /\ out' = SetOut(c, "empty")
    /\ stage' = [stage EXCEPT ![c] = NextStage(c)]
    /\ UNCHANGED <<pipelineVars, llm_keys, anthropic_failed, active_provider,
                   call, lrun, prev_timeout, no_provider_seen>>

\* every entity task has built its CompanyResult; run() returns the list
LlmRunReturn ==
    /\ lrun = "running"
    /\ \A c \in Callers : stage[c] = "done"
    /\ lrun' = "returned"
    /\ UNCHANGED <<pipelineVars, llm_keys, anthropic_failed, active_provider,
                   call, stage, out, prev_timeout, no_provider_seen>>

\* the pipeline object as constructed, no real-time run going on
PipelineIdle ==
    PipelineInit({[firecrawl_key |-> FALSE, company_concurrency |-> 1,
                   search_concurrency |-> SearchPermits,
                   scrape_concurrency |-> 1, claude_concurrency |-> 1]},
                 {[i \in Entities |-> "A"]})

InitLLM ==
    /\ PipelineIdle
    /\ LlmInit(LlmKeys)
    /\ BatchInit
    /\ SideInit

NextLLM ==
    \/ \E c \in Callers : LlmStart(c)
    \/ \E c \in Callers : \E reply \in AnthropicReplies : AnthropicReturn(c, reply)
    \/ \E c \in Callers : \E o \in OpenaiOutcomes : OpenaiReturn(c, o)
    \/ \E c \in Callers : \E parses \in BOOLEAN : WrapperReturn(c, parses)
    \/ \E c \in Callers : ExtractSkipped(c)
    \/ LlmRunReturn

SpecLLM == InitLLM /\ [][NextLLM]_vars

\* ------------------------------------------------------------------------
\* run_batch(): the batch-mode run. Entities are taken by input index, their
\* company names being distinct
\* ------------------------------------------------------------------------
\* what one LLM response text can be: a JSON object of the expected shape, the
\* empty string, None (a batch output line whose message content is null), JSON
\* that is not an object, a JSON object whose fields have the wrong types, and
\* text that is not JSON
BatchTexts ==
    {"object", "empty", "null", "not_object", "wrong_types", "not_json"}
\* llm_complete returns a string: _call_openai returns content or ""
SerialTexts == BatchTexts \ {"null"}

\* _extract_json(text): text.strip() raises AttributeError on None
extract_json(text) == IF text = "null" THEN "raise" ELSE text

\* _parse_extraction_response: "raise", or the record it returns; JSONDecodeError
\* and every exception of the mapping give the empty record
parse_extraction_response(text) ==
    IF extract_json(text) = "raise" THEN "raise"
    ELSE IF text = "object" THEN "parsed"
    ELSE "empty"

\* _parse_summary_response: only JSONDecodeError is caught; data.get raises on
\* JSON that is not an object, CompanySummary(...) on fields that are not str
parse_summary_response(text) ==
    IF extract_json(text) = "raise" THEN "raise"
    ELSE IF text \in {"not_object", "wrong_types"} THEN "raise"
    ELSE IF text = "object" THEN "parsed"
    ELSE "empty"

\* _parse_person_response: as _parse_extraction_response
parse_person_response(text) ==
    IF extract_json(text) = "raise" THEN "raise"
    ELSE IF text = "object" THEN "parsed"
    ELSE "empty"

ToProcess == Entities \ b_cached

\* the requests of a phase: intel_requests (companies with usable content),
\* summary_requests (every company), person_requests (people with content)
Requests(ph) ==
    IF ph = "intel" THEN {i \in ToProcess : content[i].company}
    ELSE IF ph = "summary" THEN ToProcess
    ELSE {i \in ToProcess : content[i].person}

\* one CompanyResult of run_batch
BatchResult(i, kind, intel, summary, profile, sf) ==
    [src |-> i, kind |-> kind, intelligence |-> intel, summary |-> summary,
     profile |-> profile, sf_account |-> sf]

\* Phase 0: the cache check loop; when everything was cached, return results
BatchCheckCache(C) ==
    /\ bphase = "check"
    /\ b_cached' = C
    /\ IF C = Entities
       THEN /\ bphase' = "returned"
            /\ b_ordered' = [j \in 1..NumEntities |->
                               BatchResult(j, "cached", "parsed", "parsed",
                                           "parsed", TRUE)]
       ELSE /\ bphase' = "search"
            /\ UNCHANGED b_ordered
    /\ UNCHANGED <<coreVars, llmVars, bstep, content, texts, parsed, b_i>>

\* Phase 1: _search_company and _scrape_urls for every company to process;
\* pages is the set of companies for which usable content came back
BatchSearchScrape(pages) ==
    /\ bphase = "search"
    /\ pages \subseteq ToProcess
    /\ content' = [i \in Entities |-> [content[i] EXCEPT !.company = i \in pages]]
    /\ bphase' = "intel"
    /\ bstep' = "submit"
    /\ UNCHANGED <<coreVars, llmVars, b_cached, texts, parsed, b_i, b_ordered>>

\* the same, but the texts of a phase go unparsed: the next phase starts
GotTextsUnparsed(ph) ==
    /\ bphase' = (IF ph = "intel" THEN "summary"
                  ELSE IF ph = "summary" THEN "people" ELSE "assemble")
    /\ bstep' = "submit"

\* where run_batch goes once the response texts of a phase are in
GotTexts(ph) ==
    IF ph = "person"
    THEN bphase' = "assemble" /\ bstep' = "submit"
    ELSE bphase' = ph /\ bstep' = "parse"

\* a phase with no requests: nothing is submitted
BatchSkip(ph) ==
    /\ bphase = ph /\ bstep = "submit"
    /\ Requests(ph) = {}
    /\ GotTexts(ph)
    /\ UNCHANGED <<coreVars, llmVars, b_cached, content, texts, parsed, b_i,
                   b_ordered>>

\* submit_and_wait returns what _download_results read from the output file:
\* a text for each request that has a line in it
BatchReturns(ph, t) ==
    /\ bphase = ph /\ bstep = "submit"
    /\ Requests(ph) # {}
    /\ texts' = [texts EXCEPT ![ph] =
                    [i \in Entities |-> IF i \in Requests(ph) THEN t[i] ELSE @[i]]]
    /\ GotTexts(ph)
    /\ UNCHANGED <<coreVars, llmVars, b_cached, content, parsed, b_i, b_ordered>>

\* submit_and_wait raises: fall back to serial llm_complete calls
BatchFails(ph) ==
    /\ bphase = ph /\ bstep = "submit"
    /\ Requests(ph) # {}
    /\ bstep' = "serial"
    /\ b_i' = 0
    /\ UNCHANGED <<coreVars, llmVars, bphase, b_cached, content, texts, parsed,
                   b_ordered>>

\* the same, but an llm_complete that raises ends run_batch
SerialCallEscapes(ph, t) ==
    /\ bphase = ph /\ bstep = "serial"
    /\ LET rest == {i \in Requests(ph) : i > b_i}
           r == CHOOSE i \in rest : \A j \in rest : i <= j
       IN /\ rest # {}
          /\ texts' = [texts EXCEPT ![ph][r] = t]
          /\ b_i' = r
          /\ IF t = "skipped" THEN bphase' = "aborted" /\ UNCHANGED bstep
             ELSE IF rest = {r} THEN GotTexts(ph) ELSE UNCHANGED <<bphase, bstep>>
    /\ UNCHANGED <<coreVars, llmVars, b_cached, content, parsed, b_ordered>>

\* one turn of the serial fallback loop: llm_complete returns a text for the
\* next request, or raises ("skipped") and the request is left without a text
SerialCall(ph, t) ==
    /\ bphase = ph /\ bstep = "serial"
    /\ LET rest == {i \in Requests(ph) : i > b_i}
           r == CHOOSE i \in rest : \A j \in rest : i <= j
       IN /\ rest # {}
          /\ texts' = [texts EXCEPT ![ph][r] = t]
          /\ b_i' = r
          /\ IF rest = {r} THEN GotTexts(ph) ELSE UNCHANGED <<bphase, bstep>>
    /\ UNCHANGED <<coreVars, llmVars, b_cached, content, parsed, b_ordered>>

\* the record parse gives for entity i from the texts of phase ph; a company
\* without a text gets the empty record
ParsedOf(ph, i) ==
    IF texts[ph][i] \in {"absent", "skipped"} THEN "empty"
    ELSE IF ph = "intel" THEN parse_extraction_response(texts[ph][i])
    ELSE parse_summary_response(texts[ph][i])

\* "Parse intelligence results" / "Parse summary results": the loops over the
\* response texts (pipeline.py lines 354-363 and 418-425), outside any try
ParseResults(ph) ==
    /\ bphase = ph /\ bstep = "parse"
    /\ IF \E i \in ToProcess : ParsedOf(ph, i) = "raise"
       THEN /\ bphase' = "aborted"
            /\ UNCHANGED <<bstep, parsed>>
       ELSE /\ parsed' = [parsed EXCEPT ![ph] =
                             [i \in Entities |-> IF i \in ToProcess
                                                 THEN ParsedOf(ph, i) ELSE @[i]]]
            /\ bphase' = IF ph = "intel" THEN "summary" ELSE "people"
            /\ bstep' = "submit"
    /\ UNCHANGED <<coreVars, llmVars, b_cached, content, texts, b_i, b_ordered>>

\* Phase 4: search and scrape for the people; found is the set of companies
\* whose person has usable content
BatchPeople(found) ==
    /\ bphase = "people"
    /\ found \subseteq ToProcess
    /\ content' = [i \in Entities |-> [content[i] EXCEPT !.person = i \in found]]
    /\ bphase' = "person"
    /\ UNCHANGED <<coreVars, llmVars, bstep, b_cached, texts, parsed, b_i,
                   b_ordered>>

\* the profile of entity i's person in Phase 6
ProfileOf(i) ==
    IF texts["person"][i] \in {"absent", "skipped"} THEN "empty"
    ELSE parse_person_response(texts["person"][i])

\* Phase 6: assemble the results, the CRM lookups failing for the entities in
\* sf_fails (caught: the result goes without CRM data), then merge with the
\* cached results in input order and return
BatchAssemble(sf_fails) ==
    /\ bphase = "assemble"
    /\ IF \E i \in ToProcess : ProfileOf(i) = "raise"
       THEN /\ bphase' = "aborted"
            /\ UNCHANGED b_ordered
       ELSE /\ bphase' = "returned"
            /\ b_ordered' = [j \in 1..NumEntities |->
                  IF j \in b_cached
                  THEN BatchResult(j, "cached", "parsed", "parsed", "parsed",
                                   j \notin sf_fails)
                  ELSE BatchResult(j, "fresh", parsed["intel"][j],
                                   parsed["summary"][j], ProfileOf(j),
                                   j \notin sf_fails)]
    /\ UNCHANGED <<coreVars, llmVars, bstep, b_cached, content, texts, parsed, b_i>>

InitBatch ==
    /\ PipelineIdle
    /\ LlmInit({[anthropic |-> TRUE, openai |-> TRUE]})
    /\ BatchInit
    /\ SideInit

NextBatch ==
    \/ \E C \in SUBSET Entities : BatchCheckCache(C)
    \/ \E pages \in SUBSET Entities : BatchSearchScrape(pages)
    \/ \E ph \in Phases : BatchSkip(ph)
    \/ \E ph \in Phases : \E t \in [Entities -> BatchTexts \cup {"absent"}] :
           BatchReturns(ph, t)
    \/ \E ph \in Phases : BatchFails(ph)
    \/ \E ph \in Phases : \E t \in SerialTexts \cup {"skipped"} : SerialCall(ph, t)
    \/ \E ph \in {"intel", "summary"} : ParseResults(ph)
    \/ \E found \in SUBSET Entities : BatchPeople(found)
    \/ \E sf_fails \in SUBSET Entities : BatchAssemble(sf_fails)

SpecBatch == InitBatch /\ [][NextBatch]_vars

\* ------------------------------------------------------------------------
\* One process and the pipeline objects created in it: the web router builds
\* a new ResearchPipeline for every research request (_run_pipeline)
\* ------------------------------------------------------------------------
\* everything but the state of this component
mainVars == <<baseVars, llmVars, batchVars, ddgVars, pollVars, cacheVars, scrapeVars, rankVars, listVars, siteVars, idVars, peopleVars>>

\* ResearchPipeline(config): __init__ sets self._firecrawl_available from the
\* key of the configuration just loaded
NewPipeline(p) ==
    /\ ~pipes[p].made
    /\ pipes' = [pipes EXCEPT ![p] = [made |-> TRUE,
                                      firecrawl_available |-> pkey,
                                      pc |-> "idle"]]
    /\ UNCHANGED <<mainVars, pkey, proc_paid_failed>>

\* _do_search of pipeline object p is entered
ProcSearchStart(p) ==
    /\ pipes[p].made
    /\ pipes[p].pc = "idle"
    /\ pipes' = [pipes EXCEPT ![p].pc = IF pipes[p].firecrawl_available
                                        THEN "fc" ELSE "ddg"]
    /\ UNCHANGED <<mainVars, pkey, proc_paid_failed>>

\* search_firecrawl returns to _do_search of pipeline object p
ProcFirecrawlReturn(p, error) ==
    /\ pipes[p].pc = "fc"
    /\ pipes' = [pipes EXCEPT
                   ![p].pc = IF error = "none" THEN "idle" ELSE "ddg",
                   ![p].firecrawl_available =
                       IF is_payment_error(error) THEN FALSE ELSE @]
    /\ proc_paid_failed' = (proc_paid_failed \/ error = "payment")
    /\ UNCHANGED <<mainVars, pkey>>

\* search_ddg returns to _do_search of pipeline object p
ProcDdgReturn(p) ==
    /\ pipes[p].pc = "ddg"
    /\ pipes' = [pipes EXCEPT ![p].pc = "idle"]
    /\ UNCHANGED <<mainVars, pkey, proc_paid_failed>>

InitProc ==
    /\ PipelineIdle
    /\ LlmInit({[anthropic |-> TRUE, openai |-> TRUE]})
    /\ BatchInit
    /\ ProcInit(BOOLEAN)
    /\ DdgInit({0})
    /\ PollInit({0})
    /\ CacheInit({TRUE}, {MaxAge})
    /\ ScrapeInit({150})
    /\ RankInit({<<>>}, {"Acme"}, {MaxUrls})
    /\ ListInit({<<>>}, {-1}, {-1})
    /\ SitesInit({FALSE}, {[k \in SiteKeys |-> "none"]})
    /\ IdsInit({[i \in Entities |-> [name |-> <<"A">>, person |-> <<"C">>]]})
    /\ PeopleInit({<<>>})

NextProc ==
    \/ \E p \in Pipelines : NewPipeline(p)
    \/ \E p \in Pipelines : ProcSearchStart(p)
    \/ \E p \in Pipelines : \E error \in FirecrawlErrors :
           ProcFirecrawlReturn(p, error)
    \/ \E p \in Pipelines : ProcDdgReturn(p)

SpecProc == InitProc /\ [][NextProc]_vars

\* ------------------------------------------------------------------------
\* search_ddg (search/duckduckgo_client.py): concurrent callers, the lock, the
\* minimum interval and the retry on rate-limit errors, over a clock of seconds
\* ------------------------------------------------------------------------
notDdg == <<baseVars, llmVars, batchVars, procVars, pollVars, cacheVars, scrapeVars, rankVars, listVars, siteVars, idVars, peopleVars>>

\* time passes
DdgTick ==
    /\ dnow < MaxTime
    /\ dnow' = dnow + 1
    /\ UNCHANGED <<notDdg, last_request_time, lock_held, dcall, req_end>>

\* search_ddg is called: attempt 0 waits for the lock
DdgCall(c) ==
    /\ dcall[c].pc = "idle"
    /\ dcall' = [dcall EXCEPT ![c] = [pc |-> "wait", attempt |-> 0, wake |-> 0,
                                        last |-> "none"]]
    /\ UNCHANGED <<notDdg, dnow, last_request_time, lock_held, req_end>>

\* async with lock is entered: sleep for the rest of the minimum interval
\* since _last_request_time, or start the provider request at once
DdgEnter(c) ==
    /\ dcall[c].pc = "wait"
    /\ ~lock_held
    /\ lock_held' = TRUE
    /\ dcall' = [dcall EXCEPT ![c] =
          IF dnow - last_request_time < MinInterval
          THEN [@ EXCEPT !.pc = "spacing",
                         !.wake = last_request_time + MinInterval]
          ELSE [@ EXCEPT !.pc = "request"]]
    /\ UNCHANGED <<notDdg, dnow, last_request_time, req_end>>

\* asyncio.sleep returns, not before its time is up
DdgWake(c) ==
    /\ dcall[c].pc \in {"spacing", "backoff"}
    /\ dnow >= dcall[c].wake
    /\ IF dcall[c].pc = "spacing"
       THEN /\ dcall' = [dcall EXCEPT ![c].pc = "request"]
            /\ UNCHANGED lock_held
       ELSE \* continue: the with-block is left and the next attempt begins
            /\ dcall' = [dcall EXCEPT ![c].pc = "wait", ![c].attempt = @ + 1]
            /\ lock_held' = FALSE
    /\ UNCHANGED <<notDdg, dnow, last_request_time, req_end>>

\* the same, but _last_request_time is stamped only when the request
\* succeeded
DdgRequestEndsUnstamped(c, outcome) ==
    /\ dcall[c].pc = "request"
    /\ last_request_time' = IF outcome = "ok" THEN dnow ELSE last_request_time
    /\ req_end' = dnow
    /\ IF outcome = "rate_limited" /\ dcall[c].attempt < MaxRetries
       THEN /\ dcall' = [dcall EXCEPT
                           ![c].pc = "backoff",
                           ![c].wake = dnow + MinInterval * (dcall[c].attempt + 2),
                           ![c].last = outcome]
            /\ UNCHANGED lock_held
       ELSE /\ dcall' = [dcall EXCEPT ![c].pc = "idle", ![c].last = outcome]
            /\ lock_held' = FALSE
    /\ UNCHANGED <<notDdg, dnow>>

\* the same, but a rate-limit error is retried however many attempts
\* were made
DdgRequestEndsRetrying(c, outcome) ==
    /\ dcall[c].pc = "request"
    /\ last_request_time' = dnow
    /\ req_end' = dnow
    /\ IF outcome = "rate_limited"
       THEN /\ dcall' = [dcall EXCEPT
                           ![c].pc = "backoff",
                           ![c].wake = dnow + MinInterval * (dcall[c].attempt + 2),
                           ![c].last = outcome]
            /\ UNCHANGED lock_held
       ELSE /\ dcall' = [dcall EXCEPT ![c].pc = "idle", ![c].last = outcome]
            /\ lock_held' = FALSE
    /\ UNCHANGED <<notDdg, dnow>>

\* the provider request ends: with results, with a rate-limit error (429 /
\* Too Many) or with another error. _last_request_time is stamped; a
\* rate-limit error with retries left sleeps inside the with-block, anything
\* else leaves it and returns
DdgOutcomes == {"ok", "rate_limited", "error"}
DdgRequestEnds(c, outcome) ==
    /\ dcall[c].pc = "request"
    /\ last_request_time' = dnow
    /\ req_end' = dnow
    /\ IF outcome = "rate_limited" /\ dcall[c].attempt < MaxRetries
       THEN /\ dcall' = [dcall EXCEPT
                           ![c].pc = "backoff",
                           ![c].wake = dnow + MinInterval * (dcall[c].attempt + 2),
                           ![c].last = outcome]
            /\ UNCHANGED lock_held
       ELSE /\ dcall' = [dcall EXCEPT ![c].pc = "idle", ![c].last = outcome]
            /\ lock_held' = FALSE
    /\ UNCHANGED <<notDdg, dnow>>

InitDdg ==
    /\ PipelineIdle
    /\ LlmInit({[anthropic |-> TRUE, openai |-> TRUE]})
    /\ BatchInit
    /\ ProcInit({TRUE})
    /\ DdgInit(0..MinInterval)
    /\ PollInit({0})
    /\ CacheInit({TRUE}, {MaxAge})
    /\ ScrapeInit({150})
    /\ RankInit({<<>>}, {"Acme"}, {MaxUrls})
    /\ ListInit({<<>>}, {-1}, {-1})
    /\ SitesInit({FALSE}, {[k \in SiteKeys |-> "none"]})
    /\ IdsInit({[i \in Entities |-> [name |-> <<"A">>, person |-> <<"C">>]]})
    /\ PeopleInit({<<>>})

NextDdg ==
    \/ DdgTick
    \/ \E c \in DdgCallers : DdgCall(c)
    \/ \E c \in DdgCallers : DdgEnter(c)
    \/ \E c \in DdgCallers : DdgWake(c)
    \/ \E c \in DdgCallers : \E outcome \in DdgOutcomes : DdgRequestEnds(c, outcome)

SpecDdg == InitDdg /\ [][NextDdg]_vars

\* ------------------------------------------------------------------------
\* BatchProcessor.poll_batch and _download_results (analysis/batch_client.py);
\* time is counted in poll intervals
\* ------------------------------------------------------------------------
notPoll == <<baseVars, llmVars, batchVars, procVars, ddgVars, cacheVars, scrapeVars, rankVars, listVars, siteVars, idVars, peopleVars>>

\* the statuses a batch job can be retrieved with
PollStatuses ==
    {"validating", "in_progress", "finalizing", "cancelling",
     "completed", "failed", "expired", "cancelled"}
FailedStatuses == {"failed", "expired", "cancelled"}

\* one line of the output file: its custom_id and what its response holds: a
\* completion text, an empty text, a completion whose content is null, a
\* choice without a message, no choices, or a response that is null
LineKinds ==
    {"text", "empty_text", "null_content", "no_message", "no_choices",
     "null_response"}
OutputLines == [custom_id : CustomIds, kind : LineKinds]
OutputFiles == UNION {[1..n -> OutputLines] : n \in 0..MaxLines}

\* the value _download_results stores for one line (lines 134-148), "raise"
\* where entry.get("response", {}).get raises on a null response
value_of(line) ==
    CASE line.kind = "text" -> "text"
      [] line.kind = "empty_text" -> ""
      [] line.kind = "null_content" -> "null"
      [] line.kind = "no_message" -> ""
      [] line.kind = "no_choices" -> ""
      [] OTHER -> "raise"

\* _download_results: the map built line by line, a later line of the same
\* custom_id replacing an earlier one
RECURSIVE download_results(_, _)
download_results(lines, m) ==
    IF lines = <<>> THEN m
    ELSE download_results(Tail(lines),
                          [m EXCEPT ![Head(lines).custom_id] = value_of(Head(lines))])
download_raises(lines) ==
    \E j \in 1..Len(lines) : value_of(lines[j]) = "raise"

\* the same, but a failing cancel call is not swallowed
PollTimeoutCancelRaises(cancel_ok) ==
    /\ ppc = "top"
    /\ pnow > ptimeout
    /\ cancel_calls' = cancel_calls + 1
    /\ cancel_failed' = ~cancel_ok
    /\ pexit' = IF cancel_ok THEN "timeout" ELSE "api_error"
    /\ ppc' = "done"
    /\ UNCHANGED <<notPoll, ptimeout, pnow, pstatus, polls, p_lines, p_results>>

\* top of the loop, elapsed > timeout: cancel the job, whatever the cancel
\* call does, and raise TimeoutError
PollTimeout(cancel_ok) ==
    /\ ppc = "top"
    /\ pnow > ptimeout
    /\ cancel_calls' = cancel_calls + 1
    /\ cancel_failed' = ~cancel_ok
    /\ pexit' = "timeout"
    /\ ppc' = "done"
    /\ UNCHANGED <<notPoll, ptimeout, pnow, pstatus, polls, p_lines, p_results>>

\* the same, but a job that is finalizing is taken for completed
PollRetrieveEarly(status, took, lines) ==
    /\ ppc = "top"
    /\ pnow <= ptimeout
    /\ pstatus' = status
    /\ polls' = polls + 1
    /\ pnow' = pnow + took
    /\ IF status \in {"completed", "finalizing"}
       THEN /\ ppc' = "done"
            /\ p_lines' = lines
            /\ IF download_raises(lines)
               THEN pexit' = "api_error" /\ UNCHANGED p_results
               ELSE /\ pexit' = "returned"
                    /\ p_results' = download_results(lines, p_results)
       ELSE /\ lines = <<>>
            /\ ppc' = IF status \in FailedStatuses THEN "done" ELSE "sleeping"
            /\ pexit' = IF status \in FailedStatuses THEN "failed" ELSE pexit
            /\ UNCHANGED <<p_lines, p_results>>
    /\ UNCHANGED <<notPoll, ptimeout, cancel_calls, cancel_failed>>

\* top of the loop, elapsed <= timeout: retrieve the job, which takes some
\* time; completed: download the output file and return its map; failed,
\* expired or cancelled: raise RuntimeError; else go to sleep
PollRetrieve(status, took, lines) ==
    /\ ppc = "top"
    /\ pnow <= ptimeout
    /\ pstatus' = status
    /\ polls' = polls + 1
    /\ pnow' = pnow + took
    /\ IF status = "completed"
       THEN /\ ppc' = "done"
            /\ p_lines' = lines
            /\ IF download_raises(lines)
               THEN pexit' = "api_error" /\ UNCHANGED p_results
               ELSE /\ pexit' = "returned"
                    /\ p_results' = download_results(lines, p_results)
       ELSE /\ lines = <<>>
            /\ ppc' = IF status \in FailedStatuses THEN "done" ELSE "sleeping"
            /\ pexit' = IF status \in FailedStatuses THEN "failed" ELSE pexit
            /\ UNCHANGED <<p_lines, p_results>>
    /\ UNCHANGED <<notPoll, ptimeout, cancel_calls, cancel_failed>>

\* client.batches.retrieve raises: the exception leaves poll_batch
PollRetrieveFails ==
    /\ ppc = "top"
    /\ pnow <= ptimeout
    /\ pexit' = "api_error"
    /\ ppc' = "done"
    /\ UNCHANGED <<notPoll, ptimeout, pnow, pstatus, polls, cancel_calls,
                   cancel_failed, p_lines, p_results>>

\* time.sleep(poll_interval) returns, after the interval or later
PollSleepEnds(slept) ==
    /\ ppc = "sleeping"
    /\ pnow' = pnow + slept
    /\ ppc' = "top"
    /\ UNCHANGED <<notPoll, ptimeout, pstatus, polls, pexit, cancel_calls,
                   cancel_failed, p_lines, p_results>>

InitPoll ==
    /\ PipelineIdle
    /\ LlmInit({[anthropic |-> TRUE, openai |-> TRUE]})
    /\ BatchInit
    /\ ProcInit({TRUE})
    /\ DdgInit({0})
    /\ PollInit(0..MaxTimeout)
    /\ CacheInit({TRUE}, {MaxAge})
    /\ ScrapeInit({150})
    /\ RankInit({<<>>}, {"Acme"}, {MaxUrls})
    /\ ListInit({<<>>}, {-1}, {-1})
    /\ SitesInit({FALSE}, {[k \in SiteKeys |-> "none"]})
    /\ IdsInit({[i \in Entities |-> [name |-> <<"A">>, person |-> <<"C">>]]})
    /\ PeopleInit({<<>>})

NextPoll ==
    \/ \E cancel_ok \in BOOLEAN : PollTimeout(cancel_ok)
    \/ \E status \in PollStatuses : \E took \in 0..1 : \E lines \in OutputFiles :
           PollRetrieve(status, took, lines)
    \/ PollRetrieveFails
    \/ \E slept \in 1..2 : PollSleepEnds(slept)

SpecPoll == InitPoll /\ [][NextPoll]_vars

\* every call of the client returns or raises, and every sleep ends
SpecPollLive == SpecPoll /\ WF_vars(NextPoll)

\* ------------------------------------------------------------------------
\* ResearchCache (cache/store.py); time is counted in days, and each table is
\* watched under one key
\* ------------------------------------------------------------------------
notCache == <<baseVars, llmVars, batchVars, procVars, ddgVars, pollVars, scrapeVars, rankVars, listVars, siteVars, idVars, peopleVars>>

\* the values the callers cache: dicts and lists made of JSON
CacheValues == {"v1", "v2"}

\* json.dumps / json.loads, and datetime.isoformat / datetime.fromisoformat;
\* "raise" for text that is not JSON, -1 for text that is not a timestamp
json_dumps(v) == <<"json", v>>
json_loads(text) == IF text[1] = "json" THEN text[2] ELSE "raise"
isoformat(t) == <<"iso", t>>
fromisoformat(text) == IF text[1] = "iso" THEN text[2] ELSE -1

\* _is_expired(created_at_str, max_age_days): a timestamp that does not parse
\* counts as expired
is_expired(created_at_str, max_age_days) ==
    IF fromisoformat(created_at_str) = -1 THEN TRUE
    ELSE cnow - fromisoformat(created_at_str) > max_age_days

\* the same, but a connection object that stopped working is kept
ensure_connection_unprobed(conn, up) ==
    IF conn = "none" /\ up THEN "alive" ELSE conn

\* self.conn after _ensure_connection: a missing connection is opened by
\* _init_db; one on which SELECT 1 raises is closed and opened again; when
\* _init_db fails conn is None. _ensure_connection returns conn is not None.
ensure_connection(conn, up) ==
    IF conn = "alive" THEN "alive"
    ELSE IF up THEN "alive"
    ELSE "none"

\* the part every cache call starts with; _init_db runs CREATE TABLE IF NOT
\* EXISTS for the four tables
Ensure ==
    /\ cconn' = ensure_connection(cconn, db_up)
    /\ provisioned' = (provisioned \/ (cconn # "alive" /\ cconn' = "alive"))

\* what a get returns for a row it read
read_row(row) ==
    IF row = NoRow THEN "miss"
    ELSE IF is_expired(row.created_at, cmax_age) THEN "miss"
    ELSE IF json_loads(row.payload) = "raise" THEN "miss"
    ELSE json_loads(row.payload)

\* the same, but the age of the row is not looked at
CacheGetStale(ns, query_raises) ==
    /\ Ensure
    /\ LET failed == cconn' # "alive" \/ query_raises
       IN cres' = [op |-> "get", ns |-> ns, arg |-> "",
                   ret |-> IF failed \/ rows[ns] = NoRow
                              \/ json_loads(rows[ns].payload) = "raise"
                           THEN "miss" ELSE json_loads(rows[ns].payload),
                   failed |-> failed, healed |-> cconn # "alive" /\ cconn' = "alive"]
    /\ UNCHANGED <<notCache, db_up, rows, cnow, cmax_age>>

\* get_search, get_scrape, get_company, get_person: None without a
\* connection and on every exception of the query
CacheGet(ns, query_raises) ==
    /\ Ensure
    /\ LET failed == cconn' # "alive" \/ query_raises
       IN cres' = [op |-> "get", ns |-> ns, arg |-> "",
                   ret |-> IF failed THEN "miss" ELSE read_row(rows[ns]),
                   failed |-> failed, healed |-> cconn # "alive" /\ cconn' = "alive"]
    /\ UNCHANGED <<notCache, db_up, rows, cnow, cmax_age>>

\* the same, but a replaced row keeps its created_at
CacheSetKeepsAge(ns, v, write_raises) ==
    /\ Ensure
    /\ LET failed == cconn' # "alive" \/ write_raises
       IN /\ rows' = IF failed THEN rows
                     ELSE [rows EXCEPT ![ns] =
                              [payload |-> json_dumps(v),
                               created_at |-> IF @ = NoRow THEN isoformat(cnow)
                                              ELSE @.created_at]]
          /\ cres' = [op |-> "set", ns |-> ns, arg |-> IF failed THEN "" ELSE v,
                      ret |-> "returned",
                      failed |-> failed,
                      healed |-> cconn # "alive" /\ cconn' = "alive"]
    /\ UNCHANGED <<notCache, db_up, cnow, cmax_age>>

\* the same, but a write that fails leaves the table without the row
CacheSetLosesRow(ns, v, write_raises) ==
    /\ Ensure
    /\ LET failed == cconn' # "alive" \/ write_raises
       IN /\ rows' = [rows EXCEPT ![ns] =
                         IF failed THEN NoRow
                         ELSE [payload |-> json_dumps(v),
                               created_at |-> isoformat(cnow)]]
          /\ cres' = [op |-> "set", ns |-> ns, arg |-> IF failed THEN "" ELSE v,
                      ret |-> "returned",
                      failed |-> failed,
                      healed |-> cconn # "alive" /\ cconn' = "alive"]
    /\ UNCHANGED <<notCache, db_up, cnow, cmax_age>>

\* set_search, set_scrape, set_company, set_person: INSERT OR REPLACE of the
\* row with created_at = now; returns without a connection, and every
\* exception of the write is logged and dropped
CacheSet(ns, v, write_raises) ==
    /\ Ensure
    /\ LET failed == cconn' # "alive" \/ write_raises
       IN /\ rows' = IF failed THEN rows
                     ELSE [rows EXCEPT ![ns] =
                              [payload |-> json_dumps(v),
                               created_at |-> isoformat(cnow)]]
          /\ cres' = [op |-> "set", ns |-> ns, arg |-> IF failed THEN "" ELSE v,
                      ret |-> "returned",
                      failed |-> failed,
                      healed |-> cconn # "alive" /\ cconn' = "alive"]
    /\ UNCHANGED <<notCache, db_up, cnow, cmax_age>>

\* clear_all: DELETE FROM the four tables
CacheClearAll(write_raises) ==
    /\ Ensure
    /\ LET failed == cconn' # "alive" \/ write_raises
       IN /\ rows' = IF failed THEN rows ELSE [ns \in Namespaces |-> NoRow]
          /\ cres' = [op |-> "clear_all", ns |-> "none", arg |-> "",
                      ret |-> "returned", failed |-> failed,
                      healed |-> cconn # "alive" /\ cconn' = "alive"]
    /\ UNCHANGED <<notCache, db_up, cnow, cmax_age>>

\* list_companies (stats alike): reads only
CacheList(query_raises) ==
    /\ Ensure
    /\ LET failed == cconn' # "alive" \/ query_raises
       IN cres' = [op |-> "list", ns |-> "company", arg |-> "",
                   ret |-> IF failed \/ rows["company"] = NoRow THEN "empty"
                           ELSE "listed",
                   failed |-> failed, healed |-> cconn # "alive" /\ cconn' = "alive"]
    /\ UNCHANGED <<notCache, db_up, rows, cnow, cmax_age>>

\* close(): closes the connection and forgets it
CacheClose ==
    /\ cconn = "alive"
    /\ cconn' = "none"
    /\ cres' = NoCacheCall
    /\ UNCHANGED <<notCache, db_up, provisioned, rows, cnow, cmax_age>>

\* environment: the connection is killed under the cache
ConnKilled ==
    /\ cconn = "alive"
    /\ cconn' = "dead"
    /\ cres' = NoCacheCall
    /\ UNCHANGED <<notCache, db_up, provisioned, rows, cnow, cmax_age>>

\* environment: the database file becomes, or stops being, openable
DbToggles ==
    /\ db_up' = ~db_up
    /\ cres' = NoCacheCall
    /\ UNCHANGED <<notCache, cconn, provisioned, rows, cnow, cmax_age>>

\* the rows whose payload or timestamp no longer parses
Damaged ==
    {ns \in Namespaces :
        /\ rows[ns] # NoRow
        /\ (json_loads(rows[ns].payload) = "raise"
              \/ fromisoformat(rows[ns].created_at) = -1)}

\* environment: the payload or the timestamp of a stored row is damaged
RowCorrupted(ns, field) ==
    /\ rows[ns] # NoRow
    /\ Cardinality(Damaged) < MaxDamaged
    /\ rows' = [rows EXCEPT ![ns] =
                   IF field = "payload" THEN [@ EXCEPT !.payload = <<"garbage", "">>]
                   ELSE [@ EXCEPT !.created_at = <<"garbage", 0>>]]
    /\ rows' # rows
    /\ cres' = NoCacheCall
    /\ UNCHANGED <<notCache, cconn, db_up, provisioned, cnow, cmax_age>>

\* environment: a day passes
CacheTick ==
    /\ cnow < MaxClock
    /\ cnow' = cnow + 1
    /\ cres' = NoCacheCall
    /\ UNCHANGED <<notCache, cconn, db_up, provisioned, rows, cmax_age>>

InitCache ==
    /\ PipelineIdle
    /\ LlmInit({[anthropic |-> TRUE, openai |-> TRUE]})
    /\ BatchInit
    /\ ProcInit({TRUE})
    /\ DdgInit({0})
    /\ PollInit({0})
    /\ CacheInit(BOOLEAN, {MaxAge})
    /\ ScrapeInit({150})
    /\ RankInit({<<>>}, {"Acme"}, {MaxUrls})
    /\ ListInit({<<>>}, {-1}, {-1})
    /\ SitesInit({FALSE}, {[k \in SiteKeys |-> "none"]})
    /\ IdsInit({[i \in Entities |-> [name |-> <<"A">>, person |-> <<"C">>]]})
    /\ PeopleInit({<<>>})

NextCache ==
    \/ \E ns \in Namespaces : \E query_raises \in BOOLEAN : CacheGet(ns, query_raises)
    \/ \E ns \in Namespaces : \E v \in CacheValues : \E write_raises \in BOOLEAN :
           CacheSet(ns, v, write_raises)
    \/ \E write_raises \in BOOLEAN : CacheClearAll(write_raises)
    \/ \E query_raises \in BOOLEAN : CacheList(query_raises)
    \/ CacheClose
    \/ ConnKilled
    \/ DbToggles
    \/ \E ns \in Namespaces : \E field \in {"payload", "created_at"} :
           RowCorrupted(ns, field)
    \/ CacheTick

SpecCache == InitCache /\ [][NextCache]_vars

\* ------------------------------------------------------------------------
\* scrape_one of _scrape_urls (pipeline.py), extract_page (scrape/extractor.py)
\* and fetch_url (scrape/http_scraper.py); texts are given by their length,
\* None by -1 (texts) and "None" (error)
\* ------------------------------------------------------------------------
notScrape == <<baseVars, llmVars, batchVars, procVars, ddgVars, pollVars, cacheVars, rankVars, listVars, siteVars, idVars, peopleVars>>
\* the same without the variables of _scrape_urls
notList == <<baseVars, llmVars, batchVars, procVars, ddgVars, pollVars, cacheVars, rankVars, siteVars, idVars, peopleVars>>

\* what client.get does: a response (status code, content type, length of the
\* body), or an exception
FetchReplies ==
    [kind : {"response"}, code : {200},
     ctype : {"text/html", "text/plain", "application/json", "application/pdf"},
     len : {0, 200}]
    \cup [kind : {"response"}, code : {404, 429, 500, 503}, ctype : {"text/html"},
          len : {200}]
    \cup [kind : {"timeout", "redirects"}, code : {0}, ctype : {""}, len : {0}]
    \cup [kind : {"error", "error_no_text"}, code : {0}, ctype : {""}, len : {0}]

\* the inline content of scrape_one: content[:max_chars] and the marker when
\* the text is longer than max_chars
inline_content(len) == IF len > max_chars THEN max_chars + 23 ELSE len

\* scrape_one for the URL at position i, up to its first await: the inline
\* content of the search provider (kept by search_firecrawl only when longer
\* than 50), which is written to the scrape cache; else the content the
\* scrape cache holds; else the permit of scrape_sem and extract_page
ScrapeStart(i) ==
    /\ spc = "start"
    /\ cur = 0
    /\ i \in 1..Len(urls)
    /\ scrape_results[i] = NoPage
    /\ cur' = i
    /\ LET url == urls[i]
           log == [NoLog EXCEPT !.inline = fc[url] # -1,
                                !.cached = scrape_cache[url] # -1]
       IN IF fc[url] # -1
          THEN /\ page' = [content |-> inline_content(fc[url]), error |-> "None"]
               /\ scrape_cache' = [scrape_cache EXCEPT ![url] = inline_content(fc[url])]
               /\ slog' = [log EXCEPT !.source = "inline",
                                      !.wrote = inline_content(fc[url])]
               /\ spc' = "done"
          ELSE IF scrape_cache[url] # -1
          THEN /\ page' = [content |-> scrape_cache[url], error |-> "None"]
               /\ slog' = [log EXCEPT !.source = "cache"]
               /\ spc' = "done"
               /\ UNCHANGED scrape_cache
          ELSE /\ slog' = [log EXCEPT !.source = "live", !.permit = TRUE]
               /\ spc' = "get"
               /\ UNCHANGED <<page, scrape_cache>>
    /\ UNCHANGED <<notList, max_chars, fattempt, last_error, fret, fhist,
                   urls, fc, scrape_results, ret_pages>>

\* fetch_url returns (content, error)
FetchReturns(html, error) ==
    /\ fret' = [html |-> html, error |-> error]
    /\ spc' = "extract"

\* the sleep fetch_url takes before the next attempt
FetchBackoff(reply) ==
    IF reply.kind \in {"response", "timeout"} THEN 2 * (fattempt + 1) ELSE 1

\* the same, but the last attempt is retried as well
FetchAttemptAgain(reply) ==
    /\ spc = "get"
    /\ IF \/ reply.kind = "response" /\ reply.code \in {429, 503}
          \/ reply.kind \in {"timeout", "error", "error_no_text"}
       THEN /\ spc' = "sleep"
            /\ last_error' = reply.kind
            /\ fhist' = Append(fhist, [reply |-> reply, wait |-> FetchBackoff(reply)])
            /\ UNCHANGED fret
       ELSE /\ FetchReturns(IF reply.code < 400 THEN reply.len ELSE -1,
                            IF reply.code < 400 THEN "None" ELSE "HTTP")
            /\ fhist' = Append(fhist, [reply |-> reply, wait |-> 0])
            /\ UNCHANGED last_error
    /\ UNCHANGED <<notScrape, max_chars, fattempt, page>>

\* one turn of the loop of fetch_url: the request and what follows from its
\* reply
FetchAttempt(reply) ==
    /\ spc = "get"
    /\ LET retry == fattempt < MaxFetchRetries
           ends(html, error) ==
               /\ FetchReturns(html, error)
               /\ fhist' = Append(fhist, [reply |-> reply, wait |-> 0])
           sleeps ==
               /\ spc' = "sleep"
               /\ fhist' = Append(fhist, [reply |-> reply, wait |-> FetchBackoff(reply)])
               /\ UNCHANGED fret
       IN CASE reply.kind = "response" ->
                 IF reply.code \in {429, 503} /\ retry
                 THEN last_error' = "HTTP (retrying)" /\ sleeps
                 ELSE /\ UNCHANGED last_error
                      /\ IF reply.code >= 400 THEN ends(-1, "HTTP")
                         ELSE IF reply.ctype \in {"text/html", "text/plain"}
                         THEN ends(reply.len, "None")
                         ELSE IF reply.ctype = "application/json"
                         THEN ends(reply.len, "None")
                         ELSE ends(-1, "Non-HTML content")
            [] reply.kind = "timeout" ->
                 /\ last_error' = "timeout"
                 /\ IF retry THEN sleeps ELSE ends(-1, "timeout")
            [] reply.kind = "redirects" ->
                 /\ UNCHANGED last_error
                 /\ ends(-1, "too_many_redirects")
            [] OTHER ->
                 /\ last_error' = (IF reply.kind = "error" THEN "message" ELSE "")
                 /\ IF retry THEN sleeps ELSE ends(-1, last_error')
    /\ UNCHANGED <<notScrape, max_chars, fattempt, page>>

\* the sleep of fetch_url ends: continue with the next attempt
FetchSleepEnds ==
    /\ spc = "sleep"
    /\ spc' = "get"
    /\ fattempt' = fattempt + 1
    /\ UNCHANGED <<notScrape, max_chars, last_error, fret, fhist, page>>

\* where text[:max_chars] may have its last ". " or newline: -1 for nowhere
CutPoints == {-1, 40, 58, 121, 148}

\* _truncate_content, on lengths: a text over max_chars is cut at cut_point
\* when that lies in the last fifth of the budget, else at max_chars, and
\* marked
truncate_content(len, cut_point) ==
    IF len <= max_chars THEN len
    ELSE IF 10 * cut_point > 8 * max_chars THEN (cut_point + 1) + 20
    ELSE max_chars + 23

\* the content extract_page ends up with, -1 for None: trafilatura, the basic
\* stripping when that gives under 100 characters, and the reader service
\* when there are still under 100 and it returns more
extracted(traf, basic, jina) ==
    LET tier1 == IF fret.html <= 0 THEN -1
                 ELSE IF traf < 100 THEN basic ELSE traf
    IN IF tier1 < 100 /\ jina > 100 /\ jina > tier1 THEN jina ELSE tier1

\* the extractors extract_page calls, in the order it calls them
tiers_tried(traf, basic) ==
    LET local == IF fret.html <= 0 THEN <<>>
                 ELSE IF traf < 100 THEN <<"trafilatura", "basic">>
                 ELSE <<"trafilatura">>
        tier1 == IF fret.html <= 0 THEN -1
                 ELSE IF traf < 100 THEN basic ELSE traf
    IN IF tier1 < 100 THEN Append(local, "jina") ELSE local

\* what _fetch_via_jina returned to extract_page, -1 for None or no call
reader_gave(traf, basic, jina) ==
    IF tiers_tried(traf, basic) # <<>>
       /\ tiers_tried(traf, basic)[Len(tiers_tried(traf, basic))] = "jina"
    THEN jina ELSE -1

\* the same, but a page without content is written as well
written_always(p) == p.content

\* what scrape_one writes to the scrape cache after extract_page returned p:
\* the content of a page that has some, -1 for no write
written(p) == IF p.content > 0 THEN p.content ELSE -1

\* the same, but the error of fetch_url stays on the page
ExtractPageKeepsError(traf, basic, jina) ==
    /\ spc = "extract"
    /\ \E cut_point \in {c \in CutPoints : c < max_chars} :
         /\ page' = [content |-> IF extracted(traf, basic, jina) < 50 THEN 0
                                 ELSE truncate_content(extracted(traf, basic, jina),
                                                       cut_point),
                     error |-> IF fret.error \in {"None", ""}
                                  /\ extracted(traf, basic, jina) < 50
                               THEN "no_extractable_content" ELSE fret.error]
         /\ scrape_cache' = IF written(page') # -1
                            THEN [scrape_cache EXCEPT ![urls[cur]] = written(page')]
                            ELSE scrape_cache
         /\ slog' = [slog EXCEPT !.tiers = tiers_tried(traf, basic),
                                 !.reader = reader_gave(traf, basic, jina),
                                 !.wrote = written(page')]
    /\ spc' = "done"
    /\ UNCHANGED <<notList, max_chars, fattempt, last_error, fret, fhist,
                   urls, fc, cur, scrape_results, ret_pages>>

\* extract_page after fetch_url, and scrape_one after it: under 50 characters
\* give a page with an error and no content, else a page with the truncated
\* content
ExtractPage(traf, basic, jina) ==
    /\ spc = "extract"
    /\ \E cut_point \in {c \in CutPoints : c < max_chars} :
         /\ page' = IF extracted(traf, basic, jina) < 50
                    THEN [content |-> 0,
                          error |-> IF fret.error \in {"None", ""}
                                    THEN "no_extractable_content" ELSE fret.error]
                    ELSE [content |-> truncate_content(extracted(traf, basic, jina),
                                                       cut_point),
                          error |-> "None"]
         /\ scrape_cache' = IF written(page') # -1
                            THEN [scrape_cache EXCEPT ![urls[cur]] = written(page')]
                            ELSE scrape_cache
         /\ slog' = [slog EXCEPT !.tiers = tiers_tried(traf, basic),
                                 !.reader = reader_gave(traf, basic, jina),
                                 !.wrote = written(page')]
    /\ spc' = "done"
    /\ UNCHANGED <<notList, max_chars, fattempt, last_error, fret, fhist,
                   urls, fc, cur, scrape_results, ret_pages>>

\* scrape_one raises: gather returns the exception and _scrape_urls makes
\* ScrapedPage(url, error=str(result))
ScrapeRaises(message) ==
    /\ spc = "extract"
    /\ page' = [content |-> 0, error |-> message]
    /\ slog' = [slog EXCEPT !.raised = TRUE]
    /\ spc' = "done"
    /\ UNCHANGED <<notList, max_chars, fattempt, last_error, fret, fhist,
                   urls, fc, scrape_cache, cur, scrape_results, ret_pages>>

\* gather keeps what the scrape_one followed returned or raised, at the
\* position of its URL; the next scrape_one starts anew
ScrapeOneEnds ==
    /\ spc = "done"
    /\ scrape_results' = [scrape_results EXCEPT ![cur] =
           [kind |-> IF slog.raised THEN "exception" ELSE "page",
            url |-> IF slog.raised THEN "" ELSE urls[cur],
            content |-> page.content, error |-> page.error]]
    /\ cur' = 0
    /\ spc' = "start"
    /\ fattempt' = 0
    /\ last_error' = "None"
    /\ fret' = [html |-> -1, error |-> "None"]
    /\ fhist' = <<>>
    /\ page' = [content |-> 0, error |-> "None"]
    /\ slog' = NoLog
    /\ UNCHANGED <<notList, max_chars, urls, fc, scrape_cache, ret_pages>>

\* the same, but what is not a page is left out
pages_without_failures(us, rs) == SelectSeq(rs, LAMBDA r : r.kind = "page")

\* the loop of _scrape_urls over zip(urls, results): a page is taken as it
\* is, an exception becomes a page with the URL and the text of the exception
RECURSIVE pages_from(_, _)
pages_from(us, rs) ==
    IF us = <<>> \/ rs = <<>> THEN <<>>
    ELSE LET rest == pages_from(Tail(us), Tail(rs))
         IN IF Head(rs).kind = "page" THEN <<Head(rs)>> \o rest
            ELSE IF Head(rs).kind = "exception"
            THEN <<[kind |-> "page", url |-> Head(us), content |-> 0,
                    error |-> Head(rs).error]>> \o rest
            ELSE rest

\* gather returned: _scrape_urls returns its pages
ScrapeUrlsReturn ==
    /\ spc = "start"
    /\ cur = 0
    /\ \A i \in 1..Len(urls) : scrape_results[i] # NoPage
    /\ ret_pages' = pages_from(urls, scrape_results)
    /\ spc' = "returned"
    /\ UNCHANGED <<notList, max_chars, fattempt, last_error, fret, fhist, page,
                   urls, fc, scrape_cache, cur, scrape_results, slog>>

InitScrape ==
    /\ PipelineIdle
    /\ LlmInit({[anthropic |-> TRUE, openai |-> TRUE]})
    /\ BatchInit
    /\ ProcInit({TRUE})
    /\ DdgInit({0})
    /\ PollInit({0})
    /\ CacheInit({TRUE}, {MaxAge})
    /\ ScrapeInit({60, 150})
    /\ RankInit({<<>>}, {"Acme"}, {MaxUrls})
    /\ ListInit(UrlLists, {-1, 55, 200}, {-1, 55})
    /\ SitesInit({FALSE}, {[k \in SiteKeys |-> "none"]})
    /\ IdsInit({[i \in Entities |-> [name |-> <<"A">>, person |-> <<"C">>]]})
    /\ PeopleInit({<<>>})

NextScrape ==
    \/ \E i \in 1..MaxPages : ScrapeStart(i)
    \/ \E reply \in FetchReplies : FetchAttempt(reply)
    \/ FetchSleepEnds
    \/ \E traf \in {-1, 0, 60, 200} : \E basic \in {0, 40, 60, 200} :
           \E jina \in {-1, 101, 300} : ExtractPage(traf, basic, jina)
    \/ \E message \in {"", "exception text"} : ScrapeRaises(message)
    \/ ScrapeOneEnds
    \/ ScrapeUrlsReturn

SpecScrape == InitScrape /\ [][NextScrape]_vars

\* ------------------------------------------------------------------------
\* rank_and_deduplicate (search/url_ranker.py).  A URL is given by the parts
\* urlparse splits it into: scheme, netloc (its labels), path (its segments),
\* the number of trailing slashes and the fragment; a text by its words.
\* ------------------------------------------------------------------------
notRank == <<baseVars, llmVars, batchVars, procVars, ddgVars, pollVars, cacheVars,
             scrapeVars, listVars, siteVars, idVars, peopleVars>>

\* str.lower on the words that occur
Lower(w) == CASE w = "About" -> "about"
              [] w = "Acme" -> "acme"
              [] w = "ABC" -> "abc"
              [] OTHER -> w

LowerAll(s) == [i \in 1..Len(s) |-> Lower(s[i])]

Url(scheme, netloc, path, trail, frag) ==
    [scheme |-> scheme, netloc |-> netloc, path |-> path, trail |-> trail,
     frag |-> frag]

\* the URLs search results carry: one page of the company's site written four
\* ways, a second page of it, a news site, and a URL that is not http(s)
Urls ==
    { Url("https", <<"acme", "com">>, <<"about">>, 0, ""),
      Url("http", <<"acme", "com">>, <<"about">>, 1, ""),
      Url("https", <<"acme", "com">>, <<"About">>, 0, "team"),
      Url("https", <<"www", "acme", "com">>, <<"team">>, 0, ""),
      Url("https", <<"www", "reuters", "com">>, <<"a">>, 0, ""),
      Url("ftp", <<"acme", "com">>, <<"about">>, 0, "") }

\* title, snippet and position of a hit
Listings ==
    { [title |-> <<"acme", "fund">>, snippet |-> <<"credit", "facility">>,
       position |-> 1],
      [title |-> <<"about", "private">>, snippet |-> <<"credit", "facility">>,
       position |-> 8] }

Purposes == {"overview", "news"}

SearchResults ==
    { [url |-> u, title |-> l.title, snippet |-> l.snippet,
       query_purpose |-> q, position |-> l.position] :
      u \in Urls, l \in Listings, q \in Purposes }

RECURSIVE ListsUpTo(_, _)
ListsUpTo(S, n) ==
    IF n = 0 THEN {<<>>}
    ELSE ListsUpTo(S, n - 1)
         \cup {Append(s, x) : s \in {t \in ListsUpTo(S, n - 1) : Len(t) = n - 1},
                              x \in S}

\* DOMAIN_SCORES, DOMAIN_PENALTIES, RELEVANCE_KEYWORDS and HIGH_VALUE_PATHS,
\* the entries that the URLs and texts above can meet
DOMAIN_SCORES == {[domain |-> <<"reuters", "com">>, bonus |-> 7]}
DOMAIN_PENALTIES == {[domain |-> <<"x", "com">>, bonus |-> -5]}
RELEVANCE_KEYWORDS == {<<"private", "credit">>, <<"fund">>, <<"credit", "facility">>,
                       <<"aum">>}
HIGH_VALUE_PATHS == {"about", "team", "strategy"}

\* t occurs in s ("in" of two strings)
Occurs(t, s) ==
    \E i \in 0..(Len(s) - Len(t)) : \A j \in 1..Len(t) : s[i + j] = t[j]

\* _clean_company_name: lower case, everything but letters and digits dropped
clean_company_name(name) == Lower(name)

\* len of a slug
SlugLen(slug) == CASE slug = "acme" -> 4 [] slug = "abc" -> 3 [] OTHER -> 0

\* _is_company_domain: the slug has four characters or more and occurs in
\* the first label of the domain once "www." is removed
is_company_domain(domain, slug) ==
    LET clean_domain == SelectSeq(domain, LAMBDA l : l # "www")
    IN /\ SlugLen(slug) >= 4
       /\ clean_domain # <<>>
       /\ slug = clean_domain[1]

\* the same, but the trailing slash and the scheme are kept
normalize_url_verbatim(url) ==
    [netloc |-> LowerAll(url.netloc), path |-> LowerAll(url.path),
     trail |-> url.trail, scheme |-> url.scheme]

\* _normalize_url: netloc and the path without trailing slashes, lower case
normalize_url(url) ==
    [netloc |-> LowerAll(url.netloc), path |-> LowerAll(url.path)]

\* _extract_domain
extract_domain(url) == LowerAll(url.netloc)

min(a, b) == IF a <= b THEN a ELSE b

\* _score_url
score_url(url, title, snippet, domain, position, company_slug) ==
    LET is_company_site == is_company_domain(domain, company_slug)
        path_bonus ==
            IF \E i \in 1..Len(url.path) : Lower(url.path[i]) \in HIGH_VALUE_PATHS
            THEN 10 ELSE 0
        known == {d \in DOMAIN_SCORES : Occurs(d.domain, domain)}
        bad == {d \in DOMAIN_PENALTIES : Occurs(d.domain, domain)}
        domain_bonus ==
            IF known # {} THEN 3 * (CHOOSE d \in known : TRUE).bonus
            ELSE IF bad # {} THEN 3 * (CHOOSE d \in bad : TRUE).bonus
            ELSE 0
        combined_text == LowerAll(title \o snippet)
        keyword_hits ==
            Cardinality({kw \in RELEVANCE_KEYWORDS : Occurs(kw, combined_text)})
    IN 50
       + (IF is_company_site THEN 30 + path_bonus ELSE domain_bonus)
       + min(20, keyword_hits * 4)
       + (IF position <= 3 THEN 10
          ELSE IF position <= 6 THEN 5
          ELSE IF position <= 10 THEN 2
          ELSE 0)

\* the same, but every further hit of the URL raises its score
merge_hit_always(existing, purpose) ==
    [existing EXCEPT !.source_queries = Append(@, purpose),
                     !.quality_score = @ + 5]

\* a hit whose normalized URL is in seen_urls already: a new purpose is
\* recorded and adds 5 to the score
merge_hit(existing, purpose) ==
    IF \E i \in 1..Len(existing.source_queries) :
           existing.source_queries[i] = purpose
    THEN existing
    ELSE [existing EXCEPT !.source_queries = Append(@, purpose),
                          !.quality_score = @ + 5]

\* the loop over results: seen_urls, as the list of its (key, value) pairs in
\* insertion order
RECURSIVE seen_urls(_, _, _)
seen_urls(rs, seen, company_slug) ==
    IF rs = <<>> THEN seen
    ELSE LET result == Head(rs)
             url == result.url
             normalized == normalize_url(url)
             at == {i \in 1..Len(seen) : seen[i].key = normalized}
             domain == extract_domain(url)
         IN IF url.scheme \notin {"http", "https"}
            THEN seen_urls(Tail(rs), seen, company_slug)
            ELSE IF at # {}
            THEN seen_urls(Tail(rs),
                           [seen EXCEPT ![CHOOSE i \in at : TRUE].value =
                                merge_hit(@, result.query_purpose)],
                           company_slug)
            ELSE seen_urls(Tail(rs),
                           Append(seen,
                                  [key |-> normalized,
                                   value |->
                                     [url |-> url, title |-> result.title,
                                      domain |-> domain,
                                      quality_score |->
                                          score_url(url, result.title, result.snippet,
                                                    domain, result.position,
                                                    company_slug),
                                      source_queries |-> <<result.query_purpose>>]]),
                           company_slug)

\* the same, but the list is left in insertion order
unsorted(s) == s

\* sorted(..., key=quality_score, reverse=True): stable, an entry goes behind
\* the entries of a higher score only
RECURSIVE sorted_by_score(_)
sorted_by_score(s) ==
    IF s = <<>> THEN <<>>
    ELSE LET rest == sorted_by_score(Tail(s))
             p == Cardinality({i \in 1..Len(rest) :
                                  rest[i].quality_score > Head(s).quality_score})
         IN SubSeq(rest, 1, p) \o <<Head(s)>> \o SubSeq(rest, p + 1, Len(rest))

rank_and_deduplicate(rs, name, limit) ==
    LET seen == seen_urls(rs, <<>>, clean_company_name(name))
        ranked_all == sorted_by_score([i \in 1..Len(seen) |-> seen[i].value])
    IN SubSeq(ranked_all, 1, min(limit, Len(ranked_all)))

\* the same, but the results that were ranked are taken off the list passed
RankConsumesInput ==
    /\ ncalls < MaxRankCalls
    /\ ranked' = rank_and_deduplicate(rank_results, company_name, max_urls)
    /\ prev_ranked' = ranked
    /\ ncalls' = ncalls + 1
    /\ rank_results' = IF rank_results = <<>> THEN rank_results ELSE Tail(rank_results)
    /\ UNCHANGED <<notRank, company_name, max_urls>>

\* a call of rank_and_deduplicate with the list, name and limit at hand
Rank ==
    /\ ncalls < MaxRankCalls
    /\ ranked' = rank_and_deduplicate(rank_results, company_name, max_urls)
    /\ prev_ranked' = ranked
    /\ ncalls' = ncalls + 1
    /\ UNCHANGED <<notRank, rank_results, company_name, max_urls>>

InitRank ==
    /\ PipelineIdle
    /\ LlmInit({[anthropic |-> TRUE, openai |-> TRUE]})
    /\ BatchInit
    /\ ProcInit({TRUE})
    /\ DdgInit({0})
    /\ PollInit({0})
    /\ CacheInit({TRUE}, {MaxAge})
    /\ ScrapeInit({150})
    /\ RankInit(ListsUpTo(SearchResults, MaxHits), {"Acme", "ABC"}, 1..MaxUrls)
    /\ ListInit({<<>>}, {-1}, {-1})
    /\ SitesInit({FALSE}, {[k \in SiteKeys |-> "none"]})
    /\ IdsInit({[i \in Entities |-> [name |-> <<"A">>, person |-> <<"C">>]]})
    /\ PeopleInit({<<>>})

NextRank == Rank

SpecRank == InitRank /\ [][NextRank]_vars



\* ------------------------------------------------------------------------
\* The cache reads and writes of run and _process_company (pipeline.py) for
\* one entity with one person, one query and one URL of each kind; a cached
\* list or text is "empty" or a "value", a cached result an "error" or a "value"
\* ------------------------------------------------------------------------
notSites == <<baseVars, llmVars, batchVars, procVars, ddgVars, pollVars, cacheVars,
              scrapeVars, rankVars, listVars, idVars, peopleVars>>

\* the run notes a cached value it goes on with
Use(key) == used' = used \cup {<<key, kv[key]>>}

\* run: the company cache is asked unless force_refresh; a profile that
\* validates and has data is the result of the entity
SiteCompanyLookup(valid) ==
    /\ step = "company_lookup"
    /\ IF ~force_refresh /\ kv["company"] # "none" /\ valid
       THEN /\ Use("company")
            /\ step' = "returned"
       ELSE /\ step' = "search"
            /\ UNCHANGED used
    /\ UNCHANGED <<notSites, force_refresh, kv, run_outcome>>

\* run_query of _search_company and the query loop of _research_person: a
\* cached list is asked unless force_refresh and used when it is not empty;
\* else the search runs and its results are written when there are some
SiteSearch(response) ==
    /\ step \in {"search", "person_search"}
    /\ IF ~force_refresh /\ kv[step] \notin {"none", "empty"}
       THEN /\ Use(step)
            /\ UNCHANGED kv
       ELSE /\ kv' = IF response = "results" THEN [kv EXCEPT ![step] = "value"] ELSE kv
            /\ UNCHANGED used
    /\ step' = IF step = "search" THEN "scrape" ELSE "person_scrape"
    /\ UNCHANGED <<notSites, force_refresh, run_outcome>>

\* scrape_one: inline content is written; else the scrape cache is asked,
\* whatever force_refresh says, and its content used; else the page
\* extract_page returns is written when it has content
SiteScrape(inline, has_content) ==
    /\ step \in {"scrape", "person_scrape"}
    /\ IF inline
       THEN /\ kv' = [kv EXCEPT !["scrape"] = "value"]
            /\ UNCHANGED used
       ELSE IF kv["scrape"] # "none"
       THEN /\ Use("scrape")
            /\ UNCHANGED kv
       ELSE /\ kv' = IF has_content THEN [kv EXCEPT !["scrape"] = "value"] ELSE kv
            /\ UNCHANGED used
    /\ step' = IF step = "scrape" THEN "team" ELSE "person_store"
    /\ UNCHANGED <<notSites, force_refresh, run_outcome>>

\* what _do_search answers to the team-page query: an error, results without
\* inline content, inline content with results whose links start with http,
\* or inline content for links that do not
TeamResponses == {"error", "plain", "inline", "inline_no_http"}

\* _find_team_pages: a cached list is asked, whatever force_refresh says, and
\* any list that is not None stands for the search; else the search runs, and
\* when it brought inline content the list of its http results is written
SiteTeam(response) ==
    /\ step = "team"
    /\ IF kv["team"] # "none"
       THEN /\ Use("team")
            /\ UNCHANGED kv
       ELSE /\ kv' = IF response = "inline" THEN [kv EXCEPT !["team"] = "value"]
                     ELSE IF response = "inline_no_http"
                     THEN [kv EXCEPT !["team"] = "empty"]
                     ELSE kv
            /\ UNCHANGED used
    /\ step' = "person_lookup"
    /\ UNCHANGED <<notSites, force_refresh, run_outcome>>

\* _research_person: the person cache is asked unless force_refresh; a
\* profile that validates is returned as it is
SitePersonLookup(valid) ==
    /\ step = "person_lookup"
    /\ IF ~force_refresh /\ kv["person"] # "none" /\ valid
       THEN /\ Use("person")
            /\ step' = "company_store"
       ELSE /\ step' = "person_search"
            /\ UNCHANGED used
    /\ UNCHANGED <<notSites, force_refresh, kv, run_outcome>>

\* the end of _research_person: the profile is written
SitePersonStore ==
    /\ step = "person_store"
    /\ kv' = [kv EXCEPT !["person"] = "value"]
    /\ step' = "company_store"
    /\ UNCHANGED <<notSites, force_refresh, used, run_outcome>>

\* _process_company raises: _process_company_safe returns a result with the
\* error set
SiteRaise ==
    /\ step \in {"search", "scrape", "team", "person_lookup"}
    /\ run_outcome' = "error"
    /\ step' = "company_store"
    /\ UNCHANGED <<notSites, force_refresh, kv, used>>

\* run after gather: a result without error is written to the company cache
SiteCompanyStore ==
    /\ step = "company_store"
    /\ kv' = IF run_outcome = "error" THEN kv ELSE [kv EXCEPT !["company"] = "value"]
    /\ step' = "returned"
    /\ UNCHANGED <<notSites, force_refresh, used, run_outcome>>

\* a new ResearchPipeline runs the same entity over the same cache
SiteRunAgain(flag) ==
    /\ step = "returned"
    /\ force_refresh' = flag
    /\ step' = "company_lookup"
    /\ used' = {}
    /\ run_outcome' = "ok"
    /\ UNCHANGED <<notSites, kv>>

InitSites ==
    /\ PipelineIdle
    /\ LlmInit({[anthropic |-> TRUE, openai |-> TRUE]})
    /\ BatchInit
    /\ ProcInit({TRUE})
    /\ DdgInit({0})
    /\ PollInit({0})
    /\ CacheInit({TRUE}, {MaxAge})
    /\ ScrapeInit({150})
    /\ RankInit({<<>>}, {"Acme"}, {MaxUrls})
    /\ ListInit({<<>>}, {-1}, {-1})
    /\ SitesInit(BOOLEAN, [SiteKeys -> {"none", "value"}])
    /\ IdsInit({[i \in Entities |-> [name |-> <<"A">>, person |-> <<"C">>]]})
    /\ PeopleInit({<<>>})

NextSites ==
    \/ \E valid \in BOOLEAN : SiteCompanyLookup(valid)
    \/ \E response \in {"results", "no_results", "error"} : SiteSearch(response)
    \/ \E inline, has_content \in BOOLEAN : SiteScrape(inline, has_content)
    \/ \E response \in TeamResponses : SiteTeam(response)
    \/ \E valid \in BOOLEAN : SitePersonLookup(valid)
    \/ SitePersonStore
    \/ SiteRaise
    \/ SiteCompanyStore
    \/ \E flag \in BOOLEAN : SiteRunAgain(flag)

SpecSites == InitSites /\ [][NextSites]_vars

\* ------------------------------------------------------------------------
\* The correlation ids of run_batch (pipeline.py): the requests of the three
\* batch jobs, the results keyed by id, and the responses given back to the
\* entities and their people; the origin of a request is the position of the
\* entity it was made for
\* ------------------------------------------------------------------------
notIds == <<baseVars, llmVars, batchVars, procVars, ddgVars, pollVars, cacheVars,
            scrapeVars, rankVars, listVars, siteVars, peopleVars>>

\* f"intel-{company.company_name}" and f"summary-{company.company_name}"
company_id(prefix, name) == <<prefix, "-">> \o name

\* f"person-{company_name_key}-{person}"
person_id(name, person) == <<"person", "-">> \o name \o <<"-">> \o person

\* str.removeprefix
removeprefix(s, prefix) ==
    IF Len(s) >= Len(prefix) /\ SubSeq(s, 1, Len(prefix)) = prefix
    THEN SubSeq(s, Len(prefix) + 1, Len(s))
    ELSE s

\* person_pages, a dict keyed by (person, company_name): the entity whose
\* pages a key holds is the last one that wrote it
person_pages ==
    {i \in Entities :
        \A j \in Entities :
            /\ id_entities[j].name = id_entities[i].name
            /\ id_entities[j].person = id_entities[i].person
            => j <= i}

\* the requests of a phase: one per entity, or one per key of person_pages
requests_of(ph) ==
    IF ph = 3
    THEN {[id |-> person_id(id_entities[i].name, id_entities[i].person),
           origin |-> i] : i \in person_pages}
    ELSE {[id |-> company_id(IdPhases[ph], id_entities[i].name), origin |-> i] :
            i \in Entities}

\* the phase builds its requests and submits the job
IdSubmit ==
    /\ id_pc[2] = "build"
    /\ id_pc[1] <= 3
    /\ id_requests' = [id_requests EXCEPT ![id_pc[1]] = requests_of(id_pc[1])]
    /\ id_pc' = <<id_pc[1], "wait">>
    /\ UNCHANGED <<notIds, id_entities, id_results, id_given>>

\* submit_and_wait returns a dict {custom_id: text}: at most one text per id,
\* each the response to a request that carried the id
IdResults(R) ==
    /\ id_pc[2] = "wait"
    /\ R \subseteq id_requests[id_pc[1]]
    /\ \A r, q \in R : r.id = q.id => r = q
    /\ id_results' = [id_results EXCEPT ![id_pc[1]] = R]
    /\ id_pc' = <<id_pc[1] + 1, "build">>
    /\ UNCHANGED <<notIds, id_entities, id_requests, id_given>>

\* parsed_intel and parsed_summaries, keyed by the id without its prefix:
\* the origin of the record held for a name, 0 for the default record
parsed_for(ph, name) ==
    LET hits == {r \in id_results[ph] :
                   removeprefix(r.id, <<IdPhases[ph], "-">>) = name}
    IN IF hits = {} THEN 0 ELSE (CHOOSE r \in hits : TRUE).origin

\* person_results looked up with the id made again from the entity and its
\* person
profile_for(i) ==
    LET hits == {r \in id_results[3] :
                   r.id = person_id(id_entities[i].name, id_entities[i].person)}
    IN IF hits = {} THEN 0 ELSE (CHOOSE r \in hits : TRUE).origin

\* Phase 6: every entity is given the records held under its name and the
\* profile held under the id of its person
IdAssemble ==
    /\ id_pc = <<4, "build">>
    /\ id_given' = [i \in Entities |->
                      <<parsed_for(1, id_entities[i].name),
                        parsed_for(2, id_entities[i].name),
                        profile_for(i)>>]
    /\ id_pc' = <<4, "done">>
    /\ UNCHANGED <<notIds, id_entities, id_requests, id_results>>

InitIds ==
    /\ PipelineIdle
    /\ LlmInit({[anthropic |-> TRUE, openai |-> TRUE]})
    /\ BatchInit
    /\ ProcInit({TRUE})
    /\ DdgInit({0})
    /\ PollInit({0})
    /\ CacheInit({TRUE}, {MaxAge})
    /\ ScrapeInit({150})
    /\ RankInit({<<>>}, {"Acme"}, {MaxUrls})
    /\ ListInit({<<>>}, {-1}, {-1})
    /\ SitesInit({FALSE}, {[k \in SiteKeys |-> "none"]})
    /\ IdsInit(IdBatches)
    /\ PeopleInit({<<>>})

NextIds ==
    \/ IdSubmit
    \/ \E R \in SUBSET id_requests[IF id_pc[1] <= 3 THEN id_pc[1] ELSE 1] : IdResults(R)
    \/ IdAssemble

SpecIds == InitIds /\ [][NextIds]_vars

\* ------------------------------------------------------------------------
\* _research_people and _research_person (pipeline.py) for the people of one
\* company, "Acme": one task per listed person, gathered with
\* return_exceptions=True
\* ------------------------------------------------------------------------
notPeople == <<baseVars, llmVars, batchVars, procVars, ddgVars, pollVars, cacheVars,
               scrapeVars, rankVars, listVars, siteVars, idVars>>

\* the task of the person at position k ends with a profile of the given kind
\* for the given name
Returns(k, kind, name) ==
    rp_tasks' = [rp_tasks EXCEPT ![k] =
                   [at |-> "returned", kind |-> kind, name |-> name,
                    company |-> "Acme"]]

\* the task of the person at position k goes on
GoesTo(k, at) == rp_tasks' = [rp_tasks EXCEPT ![k].at = at]

\* _research_person starts: a cached profile that validates is returned
PersonStart(k, hit) ==
    /\ rp_pc = "gather"
    /\ k \in 1..Len(rp_people)
    /\ rp_tasks[k].at = "start"
    /\ IF hit THEN Returns(k, "cached", rp_people[k]) ELSE GoesTo(k, "search")
    /\ UNCHANGED <<notPeople, rp_people, rp_profiles, rp_pc>>

\* the query loop: an exception of a search is caught and logged, the loop
\* goes on with the results there are
PersonSearched(k) ==
    /\ rp_pc = "gather"
    /\ k \in 1..Len(rp_people)
    /\ rp_tasks[k].at = "search"
    /\ GoesTo(k, "scrape")
    /\ UNCHANGED <<notPeople, rp_people, rp_profiles, rp_pc>>

\* ranking and _scrape_urls are done: without any page with content the
\* profile with the name, the company and the email is returned
PersonScraped(k, good_pages) ==
    /\ rp_pc = "gather"
    /\ k \in 1..Len(rp_people)
    /\ rp_tasks[k].at = "scrape"
    /\ IF good_pages THEN GoesTo(k, "extract") ELSE Returns(k, "bare", rp_people[k])
    /\ UNCHANGED <<notPeople, rp_people, rp_profiles, rp_pc>>

\* extract_person_profile returns the parsed profile, or the default profile
\* when the call or the parsing raised; the profile is written to the cache
PersonExtracted(k, raised) ==
    /\ rp_pc = "gather"
    /\ k \in 1..Len(rp_people)
    /\ rp_tasks[k].at = "extract"
    /\ Returns(k, IF raised THEN "default" ELSE "parsed", rp_people[k])
    /\ UNCHANGED <<notPeople, rp_people, rp_profiles, rp_pc>>

\* an exception leaves _research_person: from the making of the queries, the
\* ranking, _scrape_urls, or the wait for claude_sem
PersonRaises(k) ==
    /\ rp_pc = "gather"
    /\ k \in 1..Len(rp_people)
    /\ rp_tasks[k].at \in {"search", "scrape", "extract"}
    /\ rp_tasks' = [rp_tasks EXCEPT ![k] =
                      [at |-> "raised", kind |-> "exception", name |-> "",
                       company |-> ""]]
    /\ UNCHANGED <<notPeople, rp_people, rp_profiles, rp_pc>>

\* the same, but a person whose task raised gets no profile
profiles_without_failures(people, gathered_results) ==
    SelectSeq(gathered_results, LAMBDA r : r.at = "returned")

\* the loop of _research_people over zip(people, results): a profile is taken
\* as it is, an exception becomes PersonProfile(name=person,
\* current_company=company_name)
RECURSIVE profiles_from(_, _)
profiles_from(people, gathered_results) ==
    IF people = <<>> \/ gathered_results = <<>> THEN <<>>
    ELSE LET rest == profiles_from(Tail(people), Tail(gathered_results))
         IN IF Head(gathered_results).at = "returned" THEN <<Head(gathered_results)>> \o rest
            ELSE IF Head(gathered_results).at = "raised"
            THEN <<[at |-> "returned", kind |-> "default", name |-> Head(people),
                    company |-> "Acme"]>> \o rest
            ELSE rest

\* gather returned: _research_people returns its profiles
PeopleGather ==
    /\ rp_pc = "gather"
    /\ \A k \in 1..Len(rp_people) : rp_tasks[k].at \in {"returned", "raised"}
    /\ rp_profiles' = profiles_from(rp_people, rp_tasks)
    /\ rp_pc' = "returned"
    /\ UNCHANGED <<notPeople, rp_people, rp_tasks>>

InitPeople ==
    /\ PipelineIdle
    /\ LlmInit({[anthropic |-> TRUE, openai |-> TRUE]})
    /\ BatchInit
    /\ ProcInit({TRUE})
    /\ DdgInit({0})
    /\ PollInit({0})
    /\ CacheInit({TRUE}, {MaxAge})
    /\ ScrapeInit({150})
    /\ RankInit({<<>>}, {"Acme"}, {MaxUrls})
    /\ ListInit({<<>>}, {-1}, {-1})
    /\ SitesInit({FALSE}, {[k \in SiteKeys |-> "none"]})
    /\ IdsInit({[i \in Entities |-> [name |-> <<"A">>, person |-> <<"C">>]]})
    /\ PeopleInit(PeopleLists)

NextPeople ==
    \/ \E k \in 1..MaxPeople :
         \/ \E hit \in BOOLEAN : PersonStart(k, hit)
         \/ PersonSearched(k)
         \/ \E good_pages \in BOOLEAN : PersonScraped(k, good_pages)
         \/ \E raised \in BOOLEAN : PersonExtracted(k, raised)
         \/ PersonRaises(k)
    \/ PeopleGather

SpecPeople == InitPeople /\ [][NextPeople]_vars

\* ------------------------------------------------------------------------
\* Properties
\* ------------------------------------------------------------------------
Tasks == Entities \X SubIds
At(pcs) == {t \in Tasks : sub[t[1]][t[2]] \in pcs}

\* entities inside the with-block of company_sem
InsideCount == Cardinality({i \in Entities : epc[i] \in Inside})
\* sub-tasks inside the with-block of search_sem / scrape_sem / claude_sem
InFlightSearch == Cardinality(At({"fc", "lock_wait", "ddg"}))
InFlightScrape == Cardinality(At({"scraping"}))
InFlightLlm == Cardinality(At({"llm"}))

\* C1: when run() returns, the list has exactly one result per input entity,
\* the j-th carrying the j-th entity's company and being a cached, a fresh or
\* an error-tagged result; run() never ends without returning its list
RunReturnsOnePerEntity ==
    /\ rpc # "aborted"
    /\ rpc = "returned" =>
         /\ Len(ordered) = Len(companies)
         /\ \A j \in 1..Len(ordered) :
              /\ ordered[j].name = companies[j]
              /\ ordered[j].kind \in {"cached", "ok", "error"}

\* a returned list that mixes a cache hit with an error-tagged result
RunReturnedMixed ==
    /\ rpc = "returned"
    /\ \E j \in 1..Len(ordered) : ordered[j].kind = "cached"
    /\ \E j \in 1..Len(ordered) : ordered[j].kind = "error"

\* C3: when an entity's pipeline raises, that entity's task ends with an
\* error-tagged result carrying its own company, run() goes on, and no other
\* entity's phase, sub-tasks or result change in that step; every processed
\* entity has its own result when run() returns
EntityFailureStep ==
    \A i \in Entities :
        (epc[i] # "failed" /\ epc'[i] = "failed") =>
            /\ new_results'[i] = error_result(i)
            /\ rpc' = rpc
            /\ \A j \in Entities \ {i} :
                 /\ epc'[j] = epc[j]
                 /\ sub'[j] = sub[j]
                 /\ new_results'[j] = new_results[j]

EveryTaskHasOwnResult ==
    rpc = "returned" =>
        \A j \in 1..Len(to_process) :
            /\ new_results[to_process[j]].src = to_process[j]
            /\ new_results[to_process[j]].kind =
                 (IF epc[to_process[j]] = "failed" THEN "error" ELSE "ok")

EntityIsolation == []EveryTaskHasOwnResult /\ [][EntityFailureStep]_vars

\* one entity has failed while another is inside its pipeline with a call in
\* flight
FailedBesideRunning ==
    \E i, j \in Entities :
        /\ i # j
        /\ epc[i] = "failed"
        /\ epc[j] \in Inside
        /\ \E k \in SubIds : sub[j][k] \in {"fc", "ddg", "scraping", "llm"}

\* C4: in every state all four bounds hold together: entities inside their
\* pipeline, search calls, page extractions and LLM adapter calls in flight
GateBounds ==
    /\ InsideCount <= config.company_concurrency
    /\ InFlightSearch <= config.search_concurrency
    /\ InFlightScrape <= config.scrape_concurrency
    /\ InFlightLlm <= config.claude_concurrency

\* all four gates are full at once
AllGatesFull ==
    /\ InsideCount = config.company_concurrency
    /\ InFlightSearch = config.search_concurrency
    /\ InFlightScrape = config.scrape_concurrency
    /\ InFlightLlm = config.claude_concurrency

\* C6: while a sub-task of one entity is blocked at the LLM gate, a sub-task of
\* another entity that waits for a search or scrape permit can take it whenever
\* fewer calls than the gate's size are in flight
GatesIndependent ==
    \A t \in At({"llm_wait"}) :
        claude_sem = 0 =>
            \A u \in Tasks :
                u[1] # t[1] =>
                    /\ (sub[u[1]][u[2]] = "search_wait"
                          /\ InFlightSearch < config.search_concurrency)
                       => ENABLED SearchAcquire(u[1], u[2])
                    /\ (sub[u[1]][u[2]] = "scrape_wait"
                          /\ InFlightScrape < config.scrape_concurrency)
                       => ENABLED ScrapeAcquire(u[1], u[2])

\* a sub-task is blocked at the LLM gate while another entity's sub-task is
\* about to take a free search permit
LlmBlockedSearchOpen ==
    \E t \in At({"llm_wait"}), u \in At({"search_wait"}) :
        /\ t[1] # u[1]
        /\ claude_sem = 0
        /\ search_sem > 0

\* C10: once the paid provider has reported a payment/quota failure, the
\* provider-available flag is false and stays false, and every search call
\* that starts from then on goes straight to the free provider: no sub-task
\* enters a call of the paid provider
PaidSwitchStep ==
    paid_failed =>
        /\ ~firecrawl_available /\ ~firecrawl_available'
        /\ \A t \in Tasks :
             (sub[t[1]][t[2]] = "search_wait" /\ sub'[t[1]][t[2]] # "search_wait")
                => sub'[t[1]][t[2]] = "lock_wait"
        /\ \A t \in Tasks :
             sub'[t[1]][t[2]] = "fc" => sub[t[1]][t[2]] = "fc"

PaidSwitchIsPermanent == [][PaidSwitchStep]_vars

\* a payment error has switched the paid provider off and a later search call
\* is being served by the free provider
FreeAfterSwitch ==
    /\ after_switch
    /\ ~firecrawl_available
    /\ At({"ddg"}) # {}

\* C5: if every external call returns or fails, run() returns
RunTerminates == <>(rpc = "returned")

\* an entity waits at the entity gate while, inside it, one sub-task holds a
\* search permit and the free-search lock and another, holding a search permit
\* too, waits for that lock
NestedContention ==
    /\ \E i \in Entities : epc[i] = "queued"
    /\ At({"ddg"}) # {}
    /\ At({"lock_wait"}) # {}
    /\ ddg_lock

\* positions of a call before and after a step
Enters(c, pc) == call[c].pc # pc /\ call'[c].pc = pc
Starts(c) == call[c].pc = "idle" /\ call'[c].pc # "idle"
PrimaryEndsWith(c, o) ==
    call[c].pc = "primary" /\ call'[c].pc # "primary" /\ call'[c].err = o
\* where llm_complete is once the primary provider is out of the way: at the
\* secondary provider, or raising when no secondary key is set
PastPrimary(c) ==
    IF llm_keys.openai THEN call'[c].pc = "secondary"
    ELSE call'[c].pc = "raised"

\* C7: the llm_complete call that observes a billing/credit failure of the
\* primary provider sets the permanent-failure flag and goes on to the
\* secondary provider (with no secondary key it raises "No LLM provider
\* available"); every llm_complete call that starts while the flag is set goes
\* directly there and no call enters the primary provider; the flag never
\* goes back from set to unset
BillingSwitchStep ==
    /\ anthropic_failed => anthropic_failed'
    /\ \A c \in Callers :
         /\ PrimaryEndsWith(c, "billing") =>
                /\ anthropic_failed'
                /\ PastPrimary(c)
                /\ ~llm_keys.openai => call'[c].exc = "no_provider"
         /\ (anthropic_failed /\ Starts(c)) => PastPrimary(c)
         /\ (anthropic_failed /\ Enters(c, "primary")) => FALSE
BillingSwitchIsPermanent == [][BillingSwitchStep]_vars

\* while the call that saw the billing failure is still at the secondary
\* provider, another call is there too without the primary provider having
\* been called for it, although its key is set
LateCallAtSecondary ==
    \E c, d \in Callers :
        /\ c # d
        /\ call[d].err = "billing" /\ call[d].pc = "secondary"
        /\ call[c].err = "none" /\ call[c].pc = "secondary"
        /\ llm_keys.anthropic /\ anthropic_failed

\* C8: an llm_complete call whose primary request times out goes on to the
\* secondary provider (with no secondary key it raises) and that step leaves
\* the permanent-failure flag as it was; the task's next llm_complete call,
\* started with the flag unset, calls the primary provider first
TimeoutStep ==
    \A c \in Callers :
        /\ PrimaryEndsWith(c, "timeout") =>
               /\ anthropic_failed' = anthropic_failed
               /\ PastPrimary(c)
        /\ (prev_timeout[c] /\ ~anthropic_failed /\ Starts(c)) =>
               call'[c].pc = "primary"
TimeoutFallsBackOnce == [][TimeoutStep]_vars

\* after a timeout that was served by the secondary provider, the same task's
\* next call is at the primary provider and the flag is unset
PrimaryAgainAfterTimeout ==
    \E c \in Callers :
        /\ prev_timeout[c]
        /\ stage[c] = "summary" /\ out[c].extraction = "parsed"
        /\ call[c].pc = "primary"
        /\ ~anthropic_failed

\* C9: once llm_complete has raised "No LLM provider available", the run is
\* aborted: no entity task goes on to its next step with an empty record in
\* place of the extraction, and run() does not return a result list
NoProviderStep ==
    no_provider_seen =>
        /\ lrun' # "returned"
        /\ \A c \in Callers : stage'[c] = stage[c]
NoProviderAbortsRun == [][NoProviderStep]_vars

\* C2: run_batch never ends without returning its list, and the list it
\* returns has exactly one result per input entity, the j-th built for the
\* j-th entity, whatever the response texts of the LLM phases were
BatchReturnsOnePerEntity ==
    /\ bphase # "aborted"
    /\ bphase = "returned" =>
          /\ Len(b_ordered) = NumEntities
          /\ \A j \in 1..NumEntities : b_ordered[j].src = j

\* C11: once a search call of the process has observed a payment/quota
\* failure, no search call of any pipeline object of the process, including
\* objects created afterwards, enters a call of the paid provider
ProcessWideSwitchStep ==
    proc_paid_failed =>
        \A p \in Pipelines : pipes'[p].pc = "fc" => pipes[p].pc = "fc"
ProcessWideSwitch == [][ProcessWideSwitchStep]_vars

\* C12: at most one request to the free search provider is in flight at any
\* time, and a request starts no earlier than the minimum interval after the
\* previous request finished, whether that one succeeded or failed
DdgInFlight == {c \in DdgCallers : dcall[c].pc = "request"}
DdgSerialStep ==
    /\ Cardinality(DdgInFlight) <= 1
    /\ \A c \in DdgCallers :
         (dcall[c].pc # "request" /\ dcall'[c].pc = "request" /\ req_end >= 0)
             => dnow' >= req_end + MinInterval
DdgSerialized == [][DdgSerialStep]_vars

\* a request is in flight that had to wait out the interval after an earlier
\* request, while another caller waits for the lock
DdgSpacedAndQueued ==
    \E c, d \in DdgCallers :
        /\ dcall[c].pc = "request" /\ dcall[c].wake = req_end + MinInterval
        /\ req_end >= 0
        /\ dcall[d].pc = "wait"


\* C13: a poll_batch that ends with the timeout error has called the remote
\* cancel exactly once, whether that call returned or raised, and no other
\* ending calls it; a poll_batch whose retrievals all return a status that is
\* not terminal does end with the timeout error.
PollCancelOnce ==
    /\ cancel_calls = (IF pexit = "timeout" THEN 1 ELSE 0)
    /\ cancel_failed => pexit = "timeout"
    /\ pexit = "timeout" => pnow > ptimeout
PollTimesOut ==
    /\ []PollCancelOnce
    /\ <>(\/ pexit = "timeout"
          \/ pstatus \in FailedStatuses \cup {"completed"}
          \/ pexit = "api_error")
\* the job was polled, was still running, the cancel call raised, and the
\* timeout error was raised all the same
TimeoutAfterFailedCancel ==
    /\ pexit = "timeout"
    /\ cancel_failed
    /\ cancel_calls = 1
    /\ polls >= 1
    /\ pstatus = "in_progress"



\* C14: poll_batch returns a result map only when the status it retrieved is
\* "completed"; a retrieved "failed", "expired" or "cancelled" ends it with an
\* error and no further poll; any other retrieved status sends it to sleep
\* and from there back to the top of the loop; so a poll_batch whose client
\* calls return leaves the loop by completion, terminal failure or timeout.
PollStatusStep ==
    (ppc = "top" /\ ppc' # "top" /\ pexit' # "api_error" /\ cancel_calls' = cancel_calls) =>
        /\ pexit' = "returned" <=> pstatus' = "completed"
        /\ pexit' = "failed" <=> pstatus' \in FailedStatuses
        /\ ppc' = "sleeping" <=> pstatus' \notin FailedStatuses \cup {"completed"}
LastLineOf(id) ==
    p_lines[CHOOSE j \in 1..Len(p_lines) :
                /\ p_lines[j].custom_id = id
                /\ \A k \in (j + 1)..Len(p_lines) : p_lines[k].custom_id # id]
DownloadMapsEveryId ==
    /\ pstatus = "completed" => pexit = "returned"
    /\ pexit = "returned" =>
           \A id \in CustomIds :
               IF \E j \in 1..Len(p_lines) : p_lines[j].custom_id = id
               THEN p_results[id] = (IF LastLineOf(id).kind = "text" THEN "text" ELSE "")
               ELSE p_results[id] = "absent"



\* C16: when submit_and_wait of a phase raises, run_batch calls llm_complete
\* for each request of the phase in turn and then goes on with the phase's
\* texts; a request whose call raises is skipped without ending the run, and
\* the result of its entity carries the empty record for that phase.
NextRequest ==
    LET rest == {i \in Requests(bphase) : i > b_i}
    IN CHOOSE i \in rest : \A j \in rest : i <= j
SerialFallbackStep ==
    /\ (bstep = "submit" /\ bstep' = "serial") =>
           bphase' = bphase /\ b_i' = 0 /\ texts' = texts
    /\ bstep = "serial" =>
           /\ b_i' = NextRequest
           /\ texts'[bphase][b_i'] \in SerialTexts \cup {"skipped"}
           /\ bphase' # "aborted"
           /\ IF \E i \in Requests(bphase) : i > b_i'
              THEN bstep' = "serial" /\ bphase' = bphase
              ELSE bstep' # "serial"
SkippedIsEmpty ==
    \A i \in ToProcess :
        /\ (texts["intel"][i] = "skipped" /\ bphase \in {"summary", "people", "person", "assemble"})
               => parsed["intel"][i] = "empty"
        /\ (texts["summary"][i] = "skipped" /\ bphase \in {"people", "person", "assemble"})
               => parsed["summary"][i] = "empty"
        /\ bphase = "returned" =>
               /\ texts["intel"][i] = "skipped" => b_ordered[i].intelligence = "empty"
               /\ texts["summary"][i] = "skipped" => b_ordered[i].summary = "empty"
               /\ texts["person"][i] = "skipped" => b_ordered[i].profile = "empty"
SerialFallback == [][SerialFallbackStep]_vars /\ []SkippedIsEmpty
\* a run returned in which the intelligence batch failed, the serial call of
\* the first company failed as well and the one of the second succeeded
ReturnedAfterSkippedPrompt ==
    /\ bphase = "returned"
    /\ b_cached = {}
    /\ texts["intel"][1] = "skipped"
    /\ texts["intel"][2] = "object"
    /\ texts["person"][2] = "skipped"
    /\ b_ordered[1].intelligence = "empty"
    /\ b_ordered[2].intelligence = "parsed"
    /\ b_ordered[2].profile = "empty"



\* C17: in each of the four tables a get returns a value only when the row is
\* there, its timestamp parses and is not older than max_age, its payload
\* parses, and a connection is at hand, and then it is the stored value; with
\* no row, an expired row, a damaged payload or timestamp, or no connection,
\* it returns a miss; it never raises.
GetAnswersStep ==
    cres'.op = "get" =>
        LET row == rows[cres'.ns]
            usable == cconn = "alive" \/ db_up
            sound == /\ row # NoRow
                     /\ row.payload[1] = "json"
                     /\ row.created_at[1] = "iso"
                     /\ cnow - row.created_at[2] <= cmax_age
        IN /\ cres'.ns \in Namespaces
           /\ cres'.ret \in CacheValues \cup {"miss"}
           /\ cres'.ret # "miss" => sound /\ usable /\ cres'.ret = row.payload[2]
           /\ (~sound \/ ~usable) => cres'.ret = "miss"
WrittenNow ==
    (cres.op = "set" /\ ~cres.failed) =>
        rows[cres.ns] = [payload |-> <<"json", cres.arg>>,
                         created_at |-> <<"iso", cnow>>]
ReadWithinTtl ==
    (cres.op = "get" /\ ~cres.failed /\ cres.ns \notin Damaged
        /\ rows[cres.ns] # NoRow) =>
        cres.ret = (IF cnow - rows[cres.ns].created_at[2] <= cmax_age
                    THEN rows[cres.ns].payload[2] ELSE "miss")
CacheRoundTrip == WrittenNow /\ ReadWithinTtl
\* on the second day a get returns the value a set stored that day
FreshAfterRewrite ==
    /\ cres.op = "get"
    /\ cres.ret = "v2"
    /\ cnow = 1
    /\ rows[cres.ns].created_at = <<"iso", 1>>

\* C19: a set returns normally whether or not the write went through; a set
\* that did not go through (no connection, or the write raised) leaves every
\* stored row as it was, and no set touches the rows of the other tables.
SetBestEffortStep ==
    cres'.op = "set" =>
        /\ cres'.ret = "returned"
        /\ cres'.failed => rows' = rows
        /\ (cconn # "alive" /\ ~db_up) => cres'.failed
        /\ \A o \in Namespaces \ {cres'.ns} : rows'[o] = rows[o]
SetBestEffort == [][SetBestEffortStep]_vars
\* a set came back without a connection while rows were stored
SetDroppedWithoutStore ==
    /\ cres.op = "set"
    /\ cres.failed
    /\ cconn = "none"
    /\ \E ns \in Namespaces : rows[ns] # NoRow

\* C20: a cache call of any kind made while the connection is missing or dead
\* opens a new one and provisions the tables, when the database can be opened,
\* and then does its work: a set writes its row, a get reads the row.
SelfHealStep ==
    (cres'.op # "none" /\ cconn # "alive") =>
        IF db_up
        THEN /\ cconn' = "alive"
             /\ provisioned'
             /\ cres'.healed
             /\ (cres'.op = "set" /\ ~cres'.failed) =>
                    rows'[cres'.ns].payload = <<"json", cres'.arg>>
             /\ (cres'.op = "get" /\ ~cres'.failed /\ rows[cres'.ns] # NoRow
                    /\ cres'.ns \notin Damaged
                    /\ cnow - rows[cres'.ns].created_at[2] <= cmax_age) =>
                    cres'.ret = rows[cres'.ns].payload[2]
        ELSE cconn' = "none" /\ cres'.failed /\ rows' = rows
SelfHealing == [][SelfHealStep]_vars /\ [](cconn = "alive" => provisioned)
\* a get had to reconnect and returned a stored value
ReadBackAfterReconnect ==
    /\ cres.op = "get"
    /\ cres.healed
    /\ cres.ret \in CacheValues
    /\ cconn = "alive"



\* C21: a cached profile whose intelligence fields are all empty
\* goes to to_process, and every cached profile that holds data in some
\* intelligence field is returned from the cache
CheckedAt(i) == check_i = i /\ check_i' = i + 1
SignalIsTrustedStep ==
    \A i \in Entities :
        (CheckedAt(i) /\ cached_data'.kind = "profile") =>
            IF cached_data'.fields = {}
            THEN to_process' = Append(to_process, i) /\ results' = results
            ELSE results' = Append(results, Result(i, "cached")) /\ epc'[i] = "cached"
SignalIsTrusted == [][SignalIsTrustedStep]_vars

\* what the loop does: a cached profile is returned from the cache, with no
\* search, scrape or LLM step for its entity, exactly when one of the seven
\* fields has_data reads holds data; a profile with all fields empty, and
\* also one with data only in other fields, goes to to_process and its entity
\* is processed.
CheckedFieldsTrustedStep ==
    \A i \in Entities :
        /\ CheckedAt(i) =>
              IF cached_data'.kind = "profile" /\ cached_data'.fields \cap CheckedFields # {}
              THEN /\ results' = Append(results, Result(i, "cached"))
                   /\ epc'[i] = "cached"
                   /\ to_process' = to_process
              ELSE /\ to_process' = Append(to_process, i)
                   /\ results' = results
        /\ epc[i] = "cached" =>
              /\ epc'[i] = "cached"
              /\ \A k \in SubIds : sub'[i][k] = "idle"
        /\ (rpc = "check" /\ rpc' = "gather") =>
              \A j \in 1..Len(to_process) : epc'[to_process[j]] = "queued"
CheckedFieldsTrusted == [][CheckedFieldsTrustedStep]_vars
\* the loop has taken one entity from the cache and has just sent to
\* to_process a profile whose only data is in a field has_data does not read
UncheckedSignalReprocessed ==
    /\ cached_data = [kind |-> "profile", fields |-> {"headquarters"}]
    /\ Len(results) = 1
    /\ Len(to_process) = 1
    /\ to_process[1] = check_i - 1

Fetched == spc \in {"extract", "done"} /\ Len(fhist) > 0

\* the replies fetch_url retries with a growing backoff
Transient(r) ==
    \/ r.kind = "response" /\ r.code \in {429, 503}
    \/ r.kind = "timeout"

\* a response that is not an error status
Served(r) == r.kind = "response" /\ r.code < 400

\* at most max_retries + 1 requests; the k-th request, when it is a 429, a 503
\* or a timeout, is followed by a sleep of 2 * k unless it was the last one,
\* and the last one ends in a failure; any other status of 400 or above ends
\* the call at once in a failure; what fetch_url returns is content without
\* error, or an error without content
FetchBounded ==
    /\ Len(fhist) <= MaxFetchRetries + 1
    /\ \A k \in 1..Len(fhist) :
         LET r == fhist[k].reply
         IN /\ Transient(r) =>
                 fhist[k].wait = (IF k <= MaxFetchRetries THEN 2 * k ELSE 0)
            /\ Transient(r) /\ k = MaxFetchRetries + 1 =>
                 fret.html = -1 /\ fret.error # "None"
            /\ r.kind = "response" /\ r.code >= 400 /\ r.code \notin {429, 503} =>
                 /\ k = Len(fhist)
                 /\ fhist[k].wait = 0
                 /\ fret = [html |-> -1, error |-> "HTTP"]
    /\ Fetched =>
         /\ fhist[Len(fhist)].wait = 0
         /\ (fret.html = -1) <=> (fret.error # "None")

\* a served response ends the call at once: in a failure when its content
\* type is none of the types in accepted, with its body as content otherwise
ContentTypeRule(accepted) ==
    \A k \in 1..Len(fhist) :
        LET r == fhist[k].reply
        IN Served(r) =>
             /\ k = Len(fhist)
             /\ fhist[k].wait = 0
             /\ fret = IF r.ctype \in accepted
                       THEN [html |-> r.len, error |-> "None"]
                       ELSE [html |-> -1, error |-> "Non-HTML content"]

\* C30 as stated: at most three attempts, 429, 503 and timeout retried with
\* a linearly growing backoff and then failed, other statuses of 400 or above
\* and every content type other than HTML failed at once, a (content, error)
\* pair always returned
FetchNonHtmlFails ==
    FetchBounded /\ ContentTypeRule({"text/html"})

\* C30: at most three attempts, 429, 503 and timeout retried with a linearly
\* growing backoff and then failed, other statuses of 400 or above failed at
\* once, and so is a content type that is none of text/html, text/plain and
\* application/json; a (content, error) pair is always returned
FetchContract ==
    FetchBounded /\ ContentTypeRule({"text/html", "text/plain", "application/json"})

\* two retried attempts, then a JSON body returned as content
JsonOnThirdAttempt ==
    /\ Fetched
    /\ Len(fhist) = 3
    /\ fhist[1].reply.code = 429
    /\ fhist[2].reply.kind = "timeout"
    /\ fhist[3].reply.ctype = "application/json"
    /\ fret.html = 200

\* the results that rank_and_deduplicate does not skip
ValidHits == {i \in 1..Len(rank_results) :
                 rank_results[i].url.scheme \in {"http", "https"}}

\* the results that fall on the entry of a URL
HitsOf(url) ==
    {i \in ValidHits : normalize_url(rank_results[i].url) = normalize_url(url)}

FirstHit(url) == CHOOSE i \in HitsOf(url) : \A j \in HitsOf(url) : i <= j

PurposesOf(url) == {rank_results[i].query_purpose : i \in HitsOf(url)}

\* the score the first result of a URL gets when it is ranked alone
ScoredOnce(url) ==
    rank_and_deduplicate(<<rank_results[FirstHit(url)]>>, company_name, 1)[1].quality_score

\* the score of a URL: 5 above ScoredOnce for each purpose beyond the first
ScoreOf(url) == ScoredOnce(url) + 5 * (Cardinality(PurposesOf(url)) - 1)

\* C23: an entry scores what its first result scores when surfaced once, plus
\* 5 for every further distinct query purpose that surfaced the URL, so two
\* purposes score strictly higher than one; a repeated hit under a purpose
\* already recorded adds nothing
PurposeBoost ==
    ncalls >= 1 =>
        \A k \in 1..Len(ranked) :
            /\ ranked[k].quality_score = ScoreOf(ranked[k].url)
            /\ Len(ranked[k].source_queries) = Cardinality(PurposesOf(ranked[k].url))
            /\ Cardinality(PurposesOf(ranked[k].url)) >= 2 =>
                   ranked[k].quality_score > ScoredOnce(ranked[k].url)

\* a URL surfaced three times under two purposes
TwoPurposesThreeHits ==
    /\ ncalls >= 1
    /\ \E k \in 1..Len(ranked) :
         /\ Cardinality(HitsOf(ranked[k].url)) = 3
         /\ Len(ranked[k].source_queries) = 2
         /\ ranked[k].quality_score = ScoredOnce(ranked[k].url) + 5

\* C24: a call leaves the list it was given as it was, and a second call with
\* the same list, name and limit returns what the first returned
RankAgainStep ==
    ncalls' = ncalls + 1 =>
        /\ rank_results' = rank_results
        /\ ncalls >= 1 => ranked' = ranked

RankedKeys == {normalize_url(rank_results[i].url) : i \in ValidHits}

\* a result that stands for a normalized URL
UrlOfKey(key) ==
    rank_results[CHOOSE i \in ValidHits : normalize_url(rank_results[i].url) = key].url

\* C25: at most max_urls entries, as many as there are deduplicated URLs up
\* to that limit, scores non-increasing, no URL left out that scores higher
\* than one returned, and among equal scores the URL seen first comes first
\* (and is the one returned when the limit cuts between them)
TopRankedInOrder ==
    ncalls >= 1 =>
        /\ Len(ranked) = min(max_urls, Cardinality(RankedKeys))
        /\ \A i, j \in 1..Len(ranked) :
             i < j =>
                /\ ranked[i].quality_score >= ranked[j].quality_score
                /\ ranked[i].quality_score = ranked[j].quality_score =>
                       FirstHit(ranked[i].url) < FirstHit(ranked[j].url)
        /\ \A key \in RankedKeys :
             (\A k \in 1..Len(ranked) : normalize_url(ranked[k].url) # key) =>
                 \A k \in 1..Len(ranked) :
                     \/ ScoreOf(UrlOfKey(key)) < ranked[k].quality_score
                     \/ /\ ScoreOf(UrlOfKey(key)) = ranked[k].quality_score
                        /\ FirstHit(UrlOfKey(key)) > FirstHit(ranked[k].url)

\* the limit cuts between two URLs of the same score: the one seen first is
\* returned
TieCutByLimit ==
    /\ ncalls >= 1
    /\ max_urls = 1
    /\ Len(ranked) = 1
    /\ \E key \in RankedKeys :
         /\ normalize_url(ranked[1].url) # key
         /\ ScoreOf(UrlOfKey(key)) = ranked[1].quality_score

\* two URLs that differ in scheme, trailing slash and fragment only
SamePage(u, v) == u.netloc = v.netloc /\ u.path = v.path

\* C26: no two entries share a normalized URL, results whose URLs differ in
\* scheme, trailing slash or fragment only fall on one entry, and that entry
\* has the URL and the title of the first of them
OneEntryPerPage ==
    ncalls >= 1 =>
        /\ \A i, j \in 1..Len(ranked) :
             i # j => /\ ~SamePage(ranked[i].url, ranked[j].url)
                      /\ LowerAll(ranked[i].url.netloc \o ranked[i].url.path)
                           # LowerAll(ranked[j].url.netloc \o ranked[j].url.path)
        /\ \A k \in 1..Len(ranked) :
             LET same == {i \in ValidHits : SamePage(rank_results[i].url, ranked[k].url)}
                 first == CHOOSE i \in same : \A j \in same : i <= j
             IN /\ same # {}
                /\ ranked[k].url = rank_results[first].url
                /\ ranked[k].title = rank_results[first].title

\* three spellings of one page, with two titles, merged into one entry
ThreeSpellingsMerged ==
    /\ ncalls >= 1
    /\ Len(ranked) = 1
    /\ Len(rank_results) = 3
    /\ \A i \in 1..3 : SamePage(rank_results[i].url, ranked[1].url)
    /\ Cardinality({rank_results[i].url : i \in 1..3}) = 3
    /\ rank_results[2].title # rank_results[1].title
    /\ max_urls = 2

\* how far run_batch has come
BatchPos(ph, st) ==
    LET within == IF st = "submit" THEN 0 ELSE IF st = "serial" THEN 1 ELSE 2
    IN CASE ph = "check" -> 0
         [] ph = "search" -> 1
         [] ph = "intel" -> 2 + within
         [] ph = "summary" -> 5 + within
         [] ph = "people" -> 8
         [] ph = "person" -> 9 + within
         [] ph = "assemble" -> 12
         [] OTHER -> 13

\* run_batch never goes back; a step taken where a phase submits its job
\* leaves that place for good, so a phase submits one job at most; each
\* phase is entered from the one before it, the summary phase with an
\* intelligence record parsed for every company to process, the people
\* phase with a summary record parsed for each
BatchOrderStep ==
    /\ BatchPos(bphase', bstep') >= BatchPos(bphase, bstep)
    /\ bphase \in Phases /\ bstep = "submit" =>
           BatchPos(bphase', bstep') > BatchPos(bphase, bstep)
    /\ bphase' = "intel" /\ bphase # "intel" => bphase = "search"
    /\ bphase' = "summary" /\ bphase # "summary" =>
           /\ bphase = "intel" /\ bstep = "parse"
           /\ \A i \in ToProcess : parsed'["intel"][i] # "none"
    /\ bphase' = "people" /\ bphase # "people" =>
           /\ bphase = "summary" /\ bstep = "parse"
           /\ \A i \in ToProcess : parsed'["summary"][i] # "none"
    /\ bphase' = "person" /\ bphase # "person" => bphase = "people"
    /\ bphase' = "assemble" /\ bphase # "assemble" => bphase = "person"

\* C27: run_batch goes through its phases in order, the intelligence job
\* after search and scrape of every company, the summary job after every
\* intelligence result is parsed, the people search after the summaries, the
\* person job after the people are scraped, assembly last, and each of the
\* three LLM phases submits one batch job at most
BatchPhasesInOrder == [][BatchOrderStep]_vars

\* assembly reached with no company cached and a text for every request of
\* every phase
AssemblyAfterThreeJobs ==
    /\ bphase = "assemble"
    /\ b_cached = {}
    /\ \A ph \in Phases : \A i \in Entities :
           texts[ph][i] \notin {"absent", "skipped"}

\* C28: a search call that gets an error other than a payment/quota failure
\* from the paid provider goes on to the free provider and leaves
\* _firecrawl_available as it was, so that, while no payment failure has
\* been reported, every search call of a pipeline with a key starts at the
\* paid provider
NonPaymentErrorStep ==
    ~paid_failed' =>
        /\ (\E t \in Tasks : sub[t[1]][t[2]] = "fc" /\ sub'[t[1]][t[2]] = "lock_wait")
               => firecrawl_available' = firecrawl_available
        /\ config.firecrawl_key =>
               \A t \in Tasks :
                   (sub[t[1]][t[2]] = "search_wait" /\ sub'[t[1]][t[2]] # "search_wait")
                       => sub'[t[1]][t[2]] = "fc"

OtherErrorsKeepPaidFirst == [][NonPaymentErrorStep]_vars

\* how far a call of search_ddg has come: the attempt, and the place in it
DdgProgress(d) ==
    IF d.pc = "idle" THEN 4 * (MaxRetries + 1)
    ELSE 4 * d.attempt + (CASE d.pc = "wait" -> 0
                            [] d.pc = "spacing" -> 1
                            [] d.pc = "request" -> 2
                            [] OTHER -> 3)

\* every step of a call takes it further towards its return, within
\* max_retries + 1 attempts; when a provider request ends, the call sleeps
\* MinInterval * (attempt + 2) inside the lock if that was a rate-limit error
\* and an attempt is left, and otherwise returns at once, results after a
\* success and an error value after a failure, with the lock released; the
\* lock is held by a caller inside the with-block only
DdgCallStep ==
    /\ lock_held' <=> \E c \in DdgCallers : dcall'[c].pc \in {"spacing", "request", "backoff"}
    /\ \A c \in DdgCallers :
         LET a == dcall[c]
             b == dcall'[c]
         IN /\ b.attempt <= MaxRetries
            /\ a # b /\ a.pc # "idle" => DdgProgress(b) > DdgProgress(a)
            /\ a.pc = "request" /\ b.pc # "request" =>
                 /\ b.last \in DdgOutcomes
                 /\ b.pc = "backoff" <=>
                        (b.last = "rate_limited" /\ a.attempt < MaxRetries)
                 /\ b.pc = "backoff" =>
                        /\ b.wake = dnow + MinInterval * (a.attempt + 2)
                        /\ lock_held'
                 /\ b.pc # "backoff" => b.pc = "idle" /\ ~lock_held'
            /\ a.pc # "idle" /\ b.pc = "idle" => a.pc = "request"

\* C29: a call of search_ddg makes at most three provider attempts, retries
\* on a rate-limit error only, after a backoff that grows with the attempt,
\* returns an error value at once on any other failure and on a rate-limit
\* error of the third attempt, returns by way of a finished provider request
\* in every case, and leaves the lock released
DdgCallReturns == [][DdgCallStep]_vars

\* a call returned its error after the third attempt was rate-limited
ThirdAttemptRateLimited ==
    \E c \in DdgCallers :
        /\ dcall[c].pc = "idle"
        /\ dcall[c].attempt = MaxRetries
        /\ dcall[c].last = "rate_limited"
        /\ ~lock_held

\* C36: the list run() returns is in input order, the j-th result being the
\* one built for the j-th input entity, whatever the completion order, the
\* cached entities and the company names, repeated ones included
ResultsBelongToInputs ==
    rpc = "returned" =>
        /\ Len(ordered) = Len(companies)
        /\ \A j \in 1..Len(ordered) : ordered[j].src = j

\* the same for input lists whose company names are all different
DistinctNamesInOrder ==
    (rpc = "returned" /\ \A i, j \in 1..Len(companies) :
                            i # j => companies[i] # companies[j])
        => /\ Len(ordered) = Len(companies)
           /\ \A j \in 1..Len(ordered) : ordered[j].src = j

\* what a parser gives for the response text of phase ph
ParserResult(ph, text) ==
    IF ph = "intel" THEN parse_extraction_response(text)
    ELSE IF ph = "summary" THEN parse_summary_response(text)
    ELSE parse_person_response(text)

\* C35: for every response text that reaches them, the three parsers return
\* a record, the parsed one or the default one, and do not raise
ParsersTotal ==
    \A ph \in Phases : \A i \in Entities :
        texts[ph][i] \notin {"absent", "skipped"} =>
            ParserResult(ph, texts[ph][i]) \in {"parsed", "empty"}

\* the same for response texts that are strings and, for the summary, hold
\* either no JSON or a JSON object with fields of the expected types
ParsersTotalOnObjects ==
    \A ph \in Phases : \A i \in Entities :
        (/\ texts[ph][i] \notin {"absent", "skipped", "null"}
         /\ ph = "summary" => texts[ph][i] \notin {"not_object", "wrong_types"})
            => ParserResult(ph, texts[ph][i]) \in {"parsed", "empty"}

\* ---- the tiers of extract_page ----

\* the order in which the documentation lists the extractors
StatedOrder == <<"trafilatura", "jina", "basic">>
CodedOrder == <<"trafilatura", "basic", "jina">>

\* the position of a tier in an order
TierPos(order, tier) == CHOOSE n \in 1..Len(order) : order[n] = tier

\* the tiers tried were tried in the given order
TriedInOrder(order) ==
    \A m, n \in 1..Len(slog.tiers) :
        m < n => TierPos(order, slog.tiers[m]) < TierPos(order, slog.tiers[n])

\* extract_page has returned its page to the scrape_one followed
Extracted == spc = "done" /\ slog.source = "live" /\ ~slog.raised

\* C31: extract_page tries the local boilerplate removal first, then the
\* remote reader, then the regex stripper as the last resort, and returns no
\* content of under 100 characters as a successful page
TiersInStatedOrder ==
    Extracted =>
        /\ TriedInOrder(StatedOrder)
        /\ page.error = "None" /\ page.content <= max_chars => page.content >= 100

\* what extract_page does: the regex stripper runs on the fetched HTML right
\* after the boilerplate removal and before the reader, it is never tried when
\* nothing was fetched, and content of 50 characters or more is a success
TiersInCodedOrder ==
    Extracted =>
        /\ TriedInOrder(CodedOrder)
        /\ fret.html <= 0 => slog.tiers = <<"jina">>
        /\ page.error = "None" /\ page.content <= max_chars => page.content >= 50

\* the stripper ran before the reader was asked
StripperBeforeReader ==
    Extracted /\ slog.tiers = <<"trafilatura", "basic", "jina">>

\* ---- the budget of the content ----

\* C32: the content of every page the scrape step returns is at most
\* content_max_chars long
ContentWithinBudget ==
    spc = "returned" =>
        \A i \in 1..Len(ret_pages) : ret_pages[i].content <= max_chars

\* what the code keeps: the marker comes on top of the budget
ContentWithinBudgetAndMarker ==
    spc = "returned" =>
        \A i \in 1..Len(ret_pages) : ret_pages[i].content <= max_chars + 23

\* ---- failures inside the scrape step ----

\* _scrape_urls returned one page per ranked URL, in the order of the URLs
OnePagePerUrl ==
    spc = "returned" =>
        /\ Len(ret_pages) = Len(urls)
        /\ \A i \in 1..Len(urls) : ret_pages[i].url = urls[i]

FirstAvailableSource ==
    cur # 0 =>
        /\ slog.inline = (fc[urls[cur]] # -1)
        /\ slog.source = IF slog.inline THEN "inline"
                         ELSE IF slog.cached THEN "cache" ELSE "live"
        /\ slog.inline \/ slog.cached =>
               fhist = <<>> /\ slog.tiers = <<>> /\ slog.reader = -1 /\ ~slog.permit
        /\ slog.wrote # -1 =>
               /\ slog.source = "inline" \/ (slog.source = "live" /\ page.content > 0)
               /\ slog.wrote = page.content
               /\ scrape_cache[urls[cur]] = slog.wrote
        /\ slog.wrote = -1 =>
               scrape_cache[urls[cur]] # -1 <=> slog.cached

\* a URL served from the scrape cache after another URL was extracted live
\* and written
CacheHitNoFetch ==
    /\ spc = "done"
    /\ slog.source = "cache"
    /\ \E u \in PageUrls : u # urls[cur] /\ fc[u] = -1 /\ scrape_cache[u] > 55

\* ---- what the caches keep and what a run takes from them ----

\* no empty list is held for these queries, and none was used
NoEmptyList(keys) ==
    \A k \in keys : kv[k] # "empty" /\ <<k, "empty">> \notin used

\* C37: the cache makes no failure permanent: no result with an error is
\* held in the company cache, no empty list of search results is held in
\* the search cache or used when read, no page without content is held in
\* the scrape cache
FailuresNeverCached ==
    /\ kv["company"] # "error"
    /\ NoEmptyList({"search", "person_search", "team"})
    /\ kv["scrape"] # "empty"

\* what the code keeps: the same for every query but the team-page query
FailuresNeverCachedButTeam ==
    /\ kv["company"] # "error"
    /\ NoEmptyList({"search", "person_search"})
    /\ kv["scrape"] # "empty"

\* C38: with force_refresh a run uses no cached value
RefreshUsesNoCache == force_refresh => used = {}

\* what the code keeps: with force_refresh a run uses no cached profile and
\* no cached list of a company or person query
RefreshUsesNoProfile ==
    force_refresh => \A e \in used : e[1] \in {"scrape", "team"}

\* ---- the correlation ids of a batch job ----

\* within each job the requests of distinct entities carry distinct ids
IdsDistinct ==
    \A ph \in 1..3 : \A r, q \in id_requests[ph] : r.id = q.id => r.origin = q.origin

\* every entity was given the responses to its own requests, or none
IdsExact ==
    id_pc = <<4, "done">> =>
        \A i \in Entities : \A ph \in 1..3 : id_given[i][ph] \in {0, i}

\* C39: within one batch job distinct entities and distinct pairs of person
\* and entity have distinct correlation ids, and every response is given
\* back to the entity or person its request was made for
IdsDistinctAndExact ==
    /\ IdsDistinct
    /\ IdsExact

\* the names of the companies differ and no name holds a hyphen
PlainNames ==
    /\ \A i, j \in Entities : i # j => id_entities[i].name # id_entities[j].name
    /\ \A i \in Entities :
         Len(id_entities[i].name) = 1 /\ Len(id_entities[i].person) = 1

\* what the code keeps: for companies with different names and names without
\* a hyphen the ids are distinct and the responses go where they belong
IdsExactForPlainNames ==
    PlainNames =>
        /\ IdsDistinct
        /\ IdsExact

\* two companies with different names whose people were given one profile
HyphenCollision ==
    /\ id_pc = <<4, "done">>
    /\ id_entities[1].name # id_entities[2].name
    /\ id_given[1][3] = 2

\* ---- the people of a company ----

\* C40: _research_people returns one profile per listed person, in the order
\* of the list; a person whose research raised gets the default profile with
\* the person's name and the company, and every other person keeps the
\* profile its own research returned
OneProfilePerPerson ==
    rp_pc = "returned" =>
        /\ Len(rp_profiles) = Len(rp_people)
        /\ \A k \in 1..Len(rp_people) :
             /\ rp_profiles[k].name = rp_people[k]
             /\ rp_profiles[k].company = "Acme"
             /\ rp_tasks[k].at = "raised" => rp_profiles[k].kind = "default"
             /\ rp_tasks[k].at = "returned" => rp_profiles[k] = rp_tasks[k]

\* two people listed: the research of the first raised, the second has a
\* parsed profile
FirstRaisedSecondParsed ==
    /\ rp_pc = "returned"
    /\ Len(rp_people) = 2
    /\ rp_tasks[1].at = "raised"
    /\ rp_profiles[2].kind = "parsed"

====
